---- MODULE Spec2Model ----
(***************************************************************************)
(* Competitor discovery, review scraping, sentiment classification and     *)
(* aggregation of transformilca (src/competitor_search_service.py and      *)
(* src/sentiment_analyzer.py), as a state machine.                         *)
(*                                                                         *)
(* Text is a sequence of one-character strings, so that strip(), lower(),  *)
(* substring tests and the regular expressions of the source are computed  *)
(* character by character.  A Python float is a fixed-point integer in     *)
(* units of 1/Unit, every division rounded to the nearest unit (an IEEE    *)
(* double rounds far finer).                                               *)
(***************************************************************************)
EXTENDS Integers, Sequences, FiniteSets, TLC

VARIABLES
    web,        \* which part of the provider's site this run is exposed to
    clock,      \* datetime.now(), in seconds
    \* ---- harness of generate_sentiment_summary (aggregation engine)
    dfA,        \* labeled review set of one listing
    dfB,        \* labeled review set of another listing
    summaries,  \* results of the generate_sentiment_summary calls made so far
    \* ---- SentimentAnalyzer._scrape_single_google_reviews (review scraper)
    spc,          \* position in the call
    scroll_limit, \* its argument
    browser,      \* its local browser: "none", "live" or "quit"
    liveBrowsers, \* browser sessions started and not quit, all owners
    reviews,      \* len(reviews): review nodes currently known
    attempts,     \* the stall counter of the scroll loop
    records,      \* rows retained so far
    seen,         \* what the extraction loop found in each node it processed
    scrapeRet,    \* how the call ended: [raised, df]
    \* ---- CompetitorSearchService.search_and_get_reviews_urls (discovery)
    dpc,          \* position in the call
    max_results,  \* its argument
    driver,       \* the local driver of search_competitors: "none", "chrome", "edge" or "quit"
    page,         \* the results page the driver shows
    pane,         \* the result item whose detail pane is open, 0 when none is
    found,        \* competitors extracted so far
    items_done,   \* result items the extraction loop has processed
    discRet,      \* how the call ended: [raised, competitors]
    launches,     \* history: the browsers the call tried to start, in order
    \* ---- SentimentAnalyzer.analyze_competitors_sentiment (orchestrator)
    self,         \* the analyzer: [api_key, sentiment_pipeline], TRUE when set
    pc,           \* position in the call
    reviews_per_competitor, \* its argument
    competitors,  \* the listings discovery returned
    ci,           \* index of the listing the loop is at
    competitor_results,
    all_reviews,
    report,       \* the returned dictionary
    trace,        \* history: scrapes attempted, rows classified, narratives requested
    \* ---- SentimentAnalyzer.analyze_sentiment_batch called on its own
    batch_texts,    \* its argument
    batch_results,  \* results, the list it appends to
    pipeline_calls, \* history: the texts self.sentiment_pipeline was invoked
                    \* for, by index, and what each invocation did
    \* ---- CompetitorSearchService.get_google_reviews_url called on its own
    detail_url,     \* competitor_data["google_maps_url"]
    reviews_urls,   \* what the call returned, and what it returned for that
    \* ---- the rating parsers of CompetitorSearchService called on their own
    rating_elem,    \* the text of a rating element
    parsed,         \* <<[rating, review_count]>> once parsed
    \* ---- SentimentAnalyzer.extract_star_rating called on its own
    stars_elem,     \* the star text of a review
    star_ratings    \* <<what the call returned>> once called

summaryVars == <<dfA, dfB, summaries>>
scrapeVars == <<spc, scroll_limit, browser, liveBrowsers, reviews, attempts,
                records, seen, scrapeRet>>
discVars == <<dpc, max_results, driver, page, pane, found, items_done, discRet, launches>>
orchVars == <<self, pc, reviews_per_competitor, competitors, ci,
              competitor_results, all_reviews, report, trace>>
batchVars == <<batch_texts, batch_results, pipeline_calls>>
urlVars == <<detail_url, reviews_urls>>
parseVars == <<rating_elem, parsed>>
starVars == <<stars_elem, star_ratings>>
unitVars == <<batchVars, urlVars, parseVars, starVars>>
vars == <<web, clock, summaryVars, scrapeVars, discVars, orchVars, unitVars>>

----------------------------------------------------------------------------
(* Bounds *)

MaxReviews == 3      \* rows of the first labeled review set of the summary harness
MaxOther == 2        \* rows of the second labeled review set of the summary harness
MaxClock == 1        \* seconds the clock may advance
MaxNodes == 2        \* review nodes a reviews page shows at most
MaxItems == 2        \* result items a results page shows at most
MaxBatch == 2        \* texts of a batch given to analyze_sentiment_batch
MaxSegments == 3     \* path pieces of a detail URL after the host
MaxPieces == 3       \* pieces the text of a rating element is made of

----------------------------------------------------------------------------
(* Text *)

UpperCase == <<"A","B","C","D","E","F","G","H","I","J","K","L","M",
               "N","O","P","Q","R","S","T","U","V","W","X","Y","Z">>
LowerCase == <<"a","b","c","d","e","f","g","h","i","j","k","l","m",
               "n","o","p","q","r","s","t","u","v","w","x","y","z">>
DigitChars == <<"0","1","2","3","4","5","6","7","8","9">>
WhiteSpace == {" ", "\t", "\n"}

IsDigit(c) == \E i \in 1..Len(DigitChars) : DigitChars[i] = c
DigitValue(c) == (CHOOSE i \in 1..Len(DigitChars) : DigitChars[i] = c) - 1

\* str.lower(), one character
LowerChar(c) ==
    IF \E i \in 1..Len(UpperCase) : UpperCase[i] = c
    THEN LowerCase[CHOOSE i \in 1..Len(UpperCase) : UpperCase[i] = c]
    ELSE c

\* str.lower()
Lower(s) == [i \in 1..Len(s) |-> LowerChar(s[i])]

\* str.strip(): drop leading and trailing whitespace
Strip(s) ==
    LET keep == {i \in 1..Len(s) : s[i] \notin WhiteSpace}
    IN  IF keep = {} THEN <<>>
        ELSE LET lo == CHOOSE i \in keep : \A j \in keep : i <= j
                 hi == CHOOSE i \in keep : \A j \in keep : j <= i
             IN  SubSeq(s, lo, hi)

\* sub in s
Contains(s, sub) ==
    \E i \in 1..(Len(s) - Len(sub) + 1) : SubSeq(s, i, i + Len(sub) - 1) = sub

\* str(n) for a natural number
RECURSIVE NatToStr(_)
NatToStr(n) ==
    IF n < 10 THEN <<DigitChars[n + 1]>>
    ELSE NatToStr(n \div 10) \o <<DigitChars[(n % 10) + 1]>>

\* int() of a run of decimal digits
RECURSIVE DigitsToNat(_)
DigitsToNat(s) ==
    IF s = <<>> THEN 0
    ELSE 10 * DigitsToNat(SubSeq(s, 1, Len(s) - 1)) + DigitValue(s[Len(s)])

\* the longest run of digits of s that starts at position i
RECURSIVE DigitRun(_, _)
DigitRun(s, i) ==
    IF i <= Len(s) /\ IsDigit(s[i]) THEN <<s[i]>> \o DigitRun(s, i + 1) ELSE <<>>

----------------------------------------------------------------------------
(* Floats *)

Unit == 100000

\* a / b rounded to the nearest integer, b > 0
RDiv(a, b) ==
    IF a >= 0 THEN (2 * a + b) \div (2 * b)
    ELSE -((2 * (-a) + b) \div (2 * b))

Abs(a) == IF a >= 0 THEN a ELSE -a

RECURSIVE SumOf(_, _)
\* sum of f(row) over the rows of df
SumOf(df, col) ==
    IF df = <<>> THEN 0
    ELSE df[1][col] + SumOf(Tail(df), col)

\* pandas Series.mean() of one column
Mean(df, col) == RDiv(SumOf(df, col), Len(df))

----------------------------------------------------------------------------
(* Sentiment classifier: SentimentAnalyzer.analyze_sentiment_textblob *)

VeryNegative == <<"V","e","r","y"," ","N","e","g","a","t","i","v","e">>
Negative == <<"N","e","g","a","t","i","v","e">>
Neutral == <<"N","e","u","t","r","a","l">>
Positive == <<"P","o","s","i","t","i","v","e">>
VeryPositive == <<"V","e","r","y"," ","P","o","s","i","t","i","v","e">>

\* the Neutral / zero result of the empty-text and the exception paths
DefaultSentiment ==
    [sentiment |-> "Neutral", polarity |-> 0, subjectivity |-> 0, confidence |-> 0]

\* label -> star-equivalent (lines 380-394)
StarsValue(label) ==
    LET label_lower == Lower(Strip(label))
    IN  IF Contains(label_lower, Lower(VeryNegative)) THEN 1
        ELSE IF label_lower = Lower(Negative) THEN 2
        ELSE IF label_lower = Lower(Neutral) THEN 3
        ELSE IF label_lower = Lower(Positive) THEN 4
        ELSE IF Contains(label_lower, Lower(VeryPositive)) THEN 5
        ELSE IF \E i \in 1..Len(label) : IsDigit(label[i])
             THEN DigitValue(label[CHOOSE i \in 1..Len(label) :
                        /\ IsDigit(label[i])
                        /\ \A j \in 1..(i - 1) : ~IsDigit(label[j])])
             ELSE 3

\* star-equivalent -> bucket (lines 396-401)
SentimentLabel(stars_value) ==
    IF stars_value >= 4 THEN "Positive"
    ELSE IF stars_value <= 2 THEN "Negative"
    ELSE "Neutral"

\* a classifier without the except clause of line 412
analyze_sentiment_textblob_Uncaught(text, loaded, out) ==
    IF Strip(text) = <<>> THEN DefaultSentiment
    ELSE IF ~loaded \/ out.raises THEN [raised |-> TRUE]
    ELSE [sentiment |-> SentimentLabel(StarsValue(out.label)),
          polarity |-> ((StarsValue(out.label) - 3) * Unit) \div 2,
          subjectivity |-> Unit \div 2,
          confidence |-> out.score]

\* out is what self.sentiment_pipeline(text) does: [raises |-> TRUE], or
\* [raises |-> FALSE, label |-> ..., score |-> ...]; loaded is
\* self.sentiment_pipeline is not None
analyze_sentiment_textblob(text, loaded, out) ==
    IF Strip(text) = <<>> THEN DefaultSentiment
    ELSE IF ~loaded THEN DefaultSentiment
    ELSE IF out.raises THEN DefaultSentiment
    ELSE LET stars_value == StarsValue(out.label)
         IN  [sentiment |-> SentimentLabel(stars_value),
              polarity |-> ((stars_value - 3) * Unit) \div 2,
              subjectivity |-> Unit \div 2,
              confidence |-> out.score]

\* SentimentAnalyzer.extract_star_rating: int(float(first decimal number)),
\* 3 when the text holds no number
extract_star_rating(stars_text) ==
    IF \E i \in 1..Len(stars_text) : IsDigit(stars_text[i])
    THEN LET first == CHOOSE i \in 1..Len(stars_text) :
                         /\ IsDigit(stars_text[i])
                         /\ \A j \in 1..(i - 1) : ~IsDigit(stars_text[j])
         IN  DigitsToNat(DigitRun(stars_text, first))
    ELSE 3

----------------------------------------------------------------------------
(* Reviews dataframes *)

SeqsUpTo(S, n) == UNION {[1..k -> S] : k \in 0..n}

\* texts used where the wording of a review does not matter
Good == <<"G","o","o","d">>
FiveStars == <<"5"," ","s","t","a","r","s">>
NoRating == <<"N","o"," ","R","a","t","i","n","g">>

\* one row of the dataframe built at line 319 (the rater's name and review
\* count are carried columns that no computation reads)
ScrapedRow(stars, review_text) == [Stars |-> stars, ReviewText |-> review_text]

\* SentimentAnalyzer.analyze_sentiment_batch: outs[i] is what the pipeline
\* does for texts[i]
analyze_sentiment_batch(texts, loaded, outs) ==
    [i \in 1..Len(texts) |->
        IF Strip(texts[i]) # <<>>
        THEN analyze_sentiment_textblob(texts[i], loaded, outs[i])
        ELSE DefaultSentiment]

\* SentimentAnalyzer.process_reviews_dataframe: the dataframe with the
\* sentiment columns, the star rating and the analysis date added
process_reviews_dataframe(df, loaded, outs, now) ==
    LET sentiment_results ==
            analyze_sentiment_batch([i \in 1..Len(df) |-> df[i].ReviewText],
                                    loaded, outs)
    IN  [i \in 1..Len(df) |->
            [Stars |-> df[i].Stars,
             ReviewText |-> df[i].ReviewText,
             Sentiment |-> sentiment_results[i].sentiment,
             Polarity |-> sentiment_results[i].polarity,
             Subjectivity |-> sentiment_results[i].subjectivity,
             Confidence |-> sentiment_results[i].confidence,
             StarRating |-> extract_star_rating(df[i].Stars),
             AnalysisDate |-> now]]

----------------------------------------------------------------------------
(* Aggregation engine: SentimentAnalyzer.generate_sentiment_summary *)

Buckets == {"Positive", "Negative", "Neutral"}

\* df['Sentiment'].value_counts(): the labels that occur, with their counts
ValueCounts(df) ==
    [s \in {df[i].Sentiment : i \in 1..Len(df)} |->
        Cardinality({i \in 1..Len(df) : df[i].Sentiment = s})]

\* a lookup that counts a label that does not occur as one review
CountGet_AtLeastOne(sentiment_counts, sentiment) ==
    IF sentiment \in DOMAIN sentiment_counts THEN sentiment_counts[sentiment] ELSE 1

\* sentiment_counts.get(sentiment, 0)
CountGet(sentiment_counts, sentiment) ==
    IF sentiment \in DOMAIN sentiment_counts THEN sentiment_counts[sentiment] ELSE 0

\* a percentage cut to a whole number
Percentage_Whole(count, total_reviews) == ((count * 100) \div total_reviews) * Unit

\* (count / total_reviews) * 100
Percentage(count, total_reviews) == RDiv(count * Unit, total_reviews) * 100

\* the dictionary built at lines 504-531 ({} for an empty dataframe)
SummaryDict(df, now) ==
    IF df = <<>> THEN <<>>
    ELSE LET total_reviews == Len(df)
             sentiment_counts == ValueCounts(df)
         IN  [total_reviews |-> total_reviews,
              sentiment_counts |-> sentiment_counts,
              sentiment_percentages |->
                  [s \in Buckets |->
                      Percentage(CountGet(sentiment_counts, s), total_reviews)],
              average_polarity |-> Mean(df, "Polarity"),
              average_subjectivity |-> Mean(df, "Subjectivity"),
              average_confidence |-> Mean(df, "Confidence"),
              average_star_rating |-> RDiv(SumOf(df, "StarRating") * Unit, Len(df)),
              analysis_date |-> now]

\* a summary that consumes the first row of the dataframe it was given
generate_sentiment_summary_InPlace(df, now) ==
    [df |-> IF df = <<>> THEN df ELSE Tail(df), ret |-> SummaryDict(df, now)]

\* SentimentAnalyzer.generate_sentiment_summary: the returned dictionary
\* and the dataframe as the call leaves it
generate_sentiment_summary(df, now) == [df |-> df, ret |-> SummaryDict(df, now)]

\* a concatenation that keeps the first frame only
Concat_FirstOnly(frames) == IF frames = <<>> THEN <<>> ELSE frames[1]

\* pd.concat(frames, ignore_index=True)
RECURSIVE Concat(_)
Concat(frames) ==
    IF frames = <<>> THEN <<>> ELSE frames[1] \o Concat(Tail(frames))

----------------------------------------------------------------------------
(* Review scraper: SentimentAnalyzer._scrape_single_google_reviews *)

MaxStalls == 20
NumTextSelectors == 4
NumStarSelectors == 3

NoReviewText == <<"N","o"," ","R","e","v","i","e","w"," ","T","e","x","t">>

\* what one selector finds inside a node: no element, or an element's text
Missing == [found |-> FALSE]
Found(t) == [found |-> TRUE, text |-> t]

\* lines 294-303: the body text after the text selectors were tried in order
RECURSIVE ExtractReviewText(_, _)
ExtractReviewText(review_text, lookups) ==
    IF lookups = <<>> THEN review_text
    ELSE IF ~lookups[1].found THEN ExtractReviewText(review_text, Tail(lookups))
    ELSE LET t == Strip(lookups[1].text)
         IN  IF t # <<>> THEN t ELSE ExtractReviewText(t, Tail(lookups))

\* lines 280-289: the star text (aria-label or element text, not stripped)
RECURSIVE ExtractStars(_, _)
ExtractStars(stars, lookups) ==
    IF lookups = <<>> THEN stars
    ELSE IF ~lookups[1].found THEN ExtractStars(stars, Tail(lookups))
    ELSE IF lookups[1].text # <<>> THEN lookups[1].text
    ELSE ExtractStars(lookups[1].text, Tail(lookups))

\* a test that compares with the sentinel as written
Retained_CaseSensitive(review_text) ==
    /\ review_text # <<>>
    /\ Strip(review_text) # <<>>
    /\ review_text # NoReviewText

\* line 308: the review is kept
Retained(review_text) ==
    /\ review_text # <<>>
    /\ Strip(review_text) # <<>>
    /\ Lower(review_text) # Lower(NoReviewText)

----------------------------------------------------------------------------
(* Listing discovery: CompetitorSearchService, pure parts *)

\* the Arabic letters of the header strings, one element per character
ArResults1 == <<"alef", "lam", "noon", "teh", "alef", "yeh_hamza", "jeem">>
ArResults2 == <<"alef", "lam", "noon", "teh", "alef", "yeh", "jeem">>
ArResults3 == <<"noon", "teh", "alef", "yeh_hamza", "jeem">>
Results == <<"R","e","s","u","l","t","s">>
RESULTS == <<"R","E","S","U","L","T","S">>

invalid_names == {ArResults1, ArResults2, ArResults3, Results, RESULTS}

\* CompetitorSearchService._sanitize_business_name
_sanitize_business_name(raw_name) ==
    IF raw_name = <<>> THEN <<>>
    ELSE LET name == Strip(raw_name)
         IN  IF name \in invalid_names THEN <<>>
             ELSE IF Len(name) <= 2 THEN <<>>
             ELSE name

\* CompetitorSearchService._safe_extract_text on an element that is there or
\* not (an error other than element-not-found is an outcome of the action)
_safe_extract_text(lookup) == IF lookup.found THEN Strip(lookup.text) ELSE <<>>

\* the loops of lines 252-257 and 376-381: the first candidate that
\* survives sanitizing, "" when there is none
RECURSIVE FirstName(_)
FirstName(lookups) ==
    IF lookups = <<>> THEN <<>>
    ELSE LET candidate == _sanitize_business_name(_safe_extract_text(lookups[1]))
         IN  IF candidate # <<>> THEN candidate ELSE FirstName(Tail(lookups))

\* f"Business {index + 1}"
BusinessN(index) == <<"B","u","s","i","n","e","s","s"," ">> \o NatToStr(index + 1)

\* 10 ** k
RECURSIVE Pow10(_)
Pow10(k) == IF k = 0 THEN 1 ELSE 10 * Pow10(k - 1)

\* CompetitorSearchService._extract_rating_number: float of ^(\d+\.?\d*)
_extract_rating_number(rating_text) ==
    IF rating_text = <<>> \/ ~IsDigit(rating_text[1]) THEN 0
    ELSE LET whole == DigitRun(rating_text, 1)
             dot == Len(whole) + 1
             frac == IF dot <= Len(rating_text) /\ rating_text[dot] = "."
                     THEN DigitRun(rating_text, dot + 1) ELSE <<>>
         IN  DigitsToNat(whole) * Unit
                + RDiv(DigitsToNat(frac) * Unit, Pow10(Len(frac)))

\* the match without re.IGNORECASE
ReviewsFollows_CaseSensitive(s, i) ==
    \E j \in i..(Len(s) + 1) :
        /\ \A k \in i..(j - 1) : s[k] \in WhiteSpace
        /\ j + 5 <= Len(s)
        /\ SubSeq(s, j, j + 5) = <<"r","e","v","i","e","w">>

\* the text from position i on is \s*review, whatever the case
ReviewsFollows(s, i) ==
    \E j \in i..(Len(s) + 1) :
        /\ \A k \in i..(j - 1) : s[k] \in WhiteSpace
        /\ j + 5 <= Len(s)
        /\ Lower(SubSeq(s, j, j + 5)) = <<"r","e","v","i","e","w">>

\* CompetitorSearchService._extract_review_count: int of the digits of the
\* first match of \(?(\d+)\s*reviews?\)?
_extract_review_count(review_text) ==
    LET starts == {i \in 1..Len(review_text) :
                      /\ IsDigit(review_text[i])
                      /\ (i = 1 \/ ~IsDigit(review_text[i - 1]))
                      /\ ReviewsFollows(review_text, i + Len(DigitRun(review_text, i)))}
    IN  IF starts = {} THEN 0
        ELSE DigitsToNat(DigitRun(review_text,
                                  CHOOSE i \in starts : \A j \in starts : i <= j))

\* lines 278-284 and 397-403: rating and review count after the rating
\* selectors were tried in order
RECURSIVE ExtractRating(_, _)
ExtractRating(cur, lookups) ==
    IF lookups = <<>> THEN cur
    ELSE LET rating_text == _safe_extract_text(lookups[1])
         IN  IF rating_text = <<>> THEN ExtractRating(cur, Tail(lookups))
             ELSE LET got == [rating |-> _extract_rating_number(rating_text),
                              review_count |-> _extract_review_count(rating_text)]
                  IN  IF got.rating > 0 THEN got ELSE ExtractRating(got, Tail(lookups))

\* the fixed head of every maps URL, one element
MapsHost == "https://www.google.com/maps"
SearchPath == <<"/","s","e","a","r","c","h","/">>
PlacePath == <<"/","p","l","a","c","e","/">>
ReviewsPath == <<"/","r","e","v","i","e","w","s">>

\* str.replace(' ', '+')
PlusForSpace(s) == [i \in 1..Len(s) |-> IF s[i] = " " THEN "+" ELSE s[i]]

\* str.rstrip('/')
RECURSIVE RStripSlash(_)
RStripSlash(s) ==
    IF s # <<>> /\ s[Len(s)] = "/" THEN RStripSlash(SubSeq(s, 1, Len(s) - 1)) ELSE s

\* s.endswith(suffix)
EndsWith(s, suffix) ==
    Len(suffix) <= Len(s) /\ SubSeq(s, Len(s) - Len(suffix) + 1, Len(s)) = suffix

\* get_google_reviews_url had it tested the end of the URL only and appended
\* to the URL as it stands
get_google_reviews_url_EndsWith(google_maps_url) ==
    IF google_maps_url = <<>> THEN <<>>
    ELSE IF Contains(google_maps_url, PlacePath) /\ ~EndsWith(google_maps_url, ReviewsPath)
    THEN google_maps_url \o ReviewsPath
    ELSE google_maps_url

\* CompetitorSearchService.get_google_reviews_url; <<>> is None
get_google_reviews_url(google_maps_url) ==
    IF google_maps_url = <<>> THEN <<>>
    ELSE IF Contains(google_maps_url, PlacePath) /\ ~Contains(google_maps_url, ReviewsPath)
    THEN RStripSlash(google_maps_url) \o ReviewsPath
    ELSE google_maps_url

\* the dictionary built at lines 319-328 and 421-430 (address, phone and
\* place id are carried fields that no computation reads)
CompetitorData(name, got, url, index) ==
    [name |-> Strip(name), rating |-> got.rating, review_count |-> got.review_count,
     google_maps_url |-> url, index |-> index + 1]

NoRatingFound == [rating |-> 0, review_count |-> 0]

\* the CSS selectors of the discovery code
NameSelectors ==
    <<"h1[data-attrid='title']", "h1", ".x3AX1-LfntMc-header-title-title",
      ".SPZz6b h1", "[data-attrid='title']", "a.hfpxzc", "[role='article'] a.hfpxzc">>
RatingSelectors ==
    <<"[jsaction*='pane.rating.moreReviews']", ".fontDisplayLarge",
      ".section-star-display", "[data-attrid='star']">>
ListNameSelectors ==
    <<"a.hfpxzc", "[role='article'] a.hfpxzc", ".fontHeadlineSmall", "h3",
      ".section-result-title", ".fontBodyMedium", ".fontHeadlineSmall">>
ListRatingSelectors ==
    <<".section-star-display", ".fontCaption", "[aria-label*='stars']", ".section-rating">>

\* selectors whose first match in the document lies in the result list
ListLinkSelectors == {"a.hfpxzc", "[role='article'] a.hfpxzc"}

\* what find_element finds for a selector in a part of the document that
\* holds the elements els (selector -> text)
Lookup(els, selector) ==
    IF selector \in DOMAIN els THEN Found(els[selector]) ELSE Missing

\* driver.find_element: the result list comes first in the document, then
\* the open detail pane, then the rest of the page
DriverLookup(pg, open, selector) ==
    IF selector \in ListLinkSelectors /\ pg.items # <<>>
            /\ selector \in DOMAIN pg.items[1].card
    THEN Found(pg.items[1].card[selector])
    ELSE IF open > 0 /\ selector \in DOMAIN pg.items[open].detail
    THEN Found(pg.items[open].detail[selector])
    ELSE Lookup(pg.frame, selector)

\* driver.current_url
CurrentUrl(pg, open) == IF open > 0 THEN pg.items[open].url ELSE pg.url

\* CompetitorSearchService._extract_single_competitor on the i-th result
\* item: the pane that is open afterwards and the dictionary (or None)
_extract_single_competitor(pg, open, i) ==
    LET index == i - 1
        item == pg.items[i]
        opened == IF item.click = "opens" /\ ~item.stale THEN i ELSE open
        paneName == FirstName([k \in 1..Len(NameSelectors) |->
                                  DriverLookup(pg, opened, NameSelectors[k])])
        \* lines 259-265 read the item itself
        raises == paneName = <<>> /\ item.stale
        headline == _sanitize_business_name(
                        _safe_extract_text(Lookup(item.card, ".fontHeadlineSmall")))
        h3 == _sanitize_business_name(_safe_extract_text(Lookup(item.card, "h3")))
        name == IF paneName # <<>> THEN paneName
                ELSE IF headline # <<>> THEN headline
                ELSE IF h3 # <<>> THEN h3
                ELSE BusinessN(index)
        got == ExtractRating(NoRatingFound,
                             [k \in 1..Len(RatingSelectors) |->
                                 DriverLookup(pg, opened, RatingSelectors[k])])
        competitor_data == CompetitorData(name, got, CurrentUrl(pg, opened), index)
    IN  [pane |-> opened,
         data |-> IF raises THEN <<>>
                  ELSE IF competitor_data.name # <<>>
                            /\ competitor_data.name # BusinessN(index)
                  THEN <<competitor_data>>
                  ELSE <<>>]

\* CompetitorSearchService._extract_from_list_item: the dictionary, or None
\* when a lookup raises
_extract_from_list_item(item, index) ==
    LET first == FirstName([k \in 1..Len(ListNameSelectors) |->
                               Lookup(item.card, ListNameSelectors[k])])
        name == IF first = <<>> THEN BusinessN(index) ELSE first
        got == ExtractRating(NoRatingFound,
                             [k \in 1..Len(ListRatingSelectors) |->
                                 Lookup(item.card, ListRatingSelectors[k])])
    IN  IF item.stale THEN <<>>
        ELSE <<CompetitorData(name, got,
                              <<MapsHost>> \o SearchPath \o PlusForSpace(name), index)>>

\* lines 206-218: what one result item adds to competitors, and the pane
\* that is open afterwards
ExtractOne(pg, open, i) ==
    LET single == _extract_single_competitor(pg, open, i)
    IN  [pane |-> single.pane,
         data |-> IF single.data # <<>> THEN single.data
                  ELSE _extract_from_list_item(pg.items[i], i - 1)]

\* CompetitorSearchService.search_and_get_reviews_urls, lines 515-522
WithReviewsUrls(listings) ==
    LET url(c) == get_google_reviews_url(c.google_maps_url)
        keep == SelectSeq(listings, LAMBDA c : url(c) # <<>>)
    IN  [k \in 1..Len(keep) |->
            [name |-> keep[k].name, rating |-> keep[k].rating,
             review_count |-> keep[k].review_count,
             google_maps_url |-> keep[k].google_maps_url,
             index |-> keep[k].index, reviews_url |-> url(keep[k])]]

----------------------------------------------------------------------------
(* The provider's site: the pages, models and collaborators a run meets *)

PipelineRaises == [raises |-> TRUE]
PipelineSays(label, score) == [raises |-> FALSE, label |-> label, score |-> score]

HighScore == (9 * Unit) \div 10

SummaryOutcomes ==
    {PipelineSays(VeryPositive, HighScore), PipelineSays(Negative, HighScore),
     PipelineRaises}

\* every labeled review set of at most n rows the classifier can produce
\* from the outcomes of w
LabeledSets(w, n) ==
    {process_reviews_dataframe([i \in 1..Len(outs) |-> ScrapedRow(FiveStars, Good)],
                               TRUE, outs, 0) : outs \in SeqsUpTo(w.outcomes, n)}

SummaryWeb == [outcomes |-> SummaryOutcomes]

\* review pages of the scraper on its own
Blank == <<" ", " ">>
PaddedGood == <<" ","G","o","o","d","\n">>
LowerSentinel == Lower(NoReviewText)
UpperSentinel == <<"N","O"," ","R","E","V","I","E","W"," ","T","E","X","T">>
PaddedSentinel == <<" ">> \o NoReviewText \o <<" ">>

\* results of a selector that make the loop try the next one
TextMisses == {Missing, Found(<<>>), Found(Blank)}
TextHits ==
    {Missing} \cup {Found(t) : t \in {<<>>, Blank, Good, PaddedGood, NoReviewText,
                                      LowerSentinel, UpperSentinel, PaddedSentinel}}

\* the text selectors of a node: the first k - 1 miss, the k-th finds hit
TextLookups ==
    {[i \in 1..NumTextSelectors |->
        IF i < k THEN miss ELSE IF i = k THEN hit ELSE Missing] :
     k \in 1..NumTextSelectors, miss \in TextMisses, hit \in TextHits}

StarLookups ==
    {[i \in 1..NumStarSelectors |-> Missing],
     [i \in 1..NumStarSelectors |-> IF i = 1 THEN Found(FiveStars) ELSE Missing],
     [i \in 1..NumStarSelectors |-> IF i = 1 THEN Found(<<>>) ELSE Missing]}

ScrapeWeb ==
    [browserStarts |-> BOOLEAN,
     pageLoads |-> BOOLEAN,
     tabs |-> {"found", "absent", "error"},
     nodeCounts |-> 0..MaxNodes,
     scrollFails |-> TRUE,
     nodeKinds |-> {[stars |-> st, texts |-> tx, fails |-> f] :
                        st \in StarLookups, tx \in TextLookups, f \in BOOLEAN}]

\* the site of a whole run
Cafe == <<"C","a","f","e">>
Dive == <<"D","i","v","e">>
Rated45 == <<"4",".","5">>

\* a result item that opens its detail pane, and one that cannot be
\* clicked and shows no text under any name selector
OpeningItem(name) ==
    [click |-> "opens", stale |-> FALSE,
     card |-> (".fontHeadlineSmall" :> name),
     detail |-> ("h1" :> name @@ ".fontDisplayLarge" :> Rated45),
     url |-> <<MapsHost>> \o PlacePath \o name]
NamelessItem ==
    [click |-> "raises", stale |-> FALSE, card |-> <<>>, detail |-> <<>>,
     url |-> <<MapsHost>> \o PlacePath]

ResultsPage(items) ==
    [url |-> <<MapsHost>> \o SearchPath, frame |-> <<>>, items |-> items]

OrchNodeKinds ==
    {[stars |-> [i \in 1..NumStarSelectors |-> Missing],
      texts |-> [i \in 1..NumTextSelectors |->
                    IF i = 1 THEN Found(t) ELSE Missing],
      fails |-> FALSE] : t \in {Good, NoReviewText}}

OrchWeb ==
    [chromeStarts |-> {"ok", "absent", "unconfigurable"},
     edgeStarts |-> BOOLEAN,
     searchFails |-> TRUE,
     pages |-> {ResultsPage(items) : items \in SeqsUpTo({OpeningItem(Cafe), NamelessItem}, MaxItems)},
     browserStarts |-> BOOLEAN,
     pageLoads |-> BOOLEAN,
     tabs |-> {"found", "absent"},
     nodeCounts |-> 0..MaxNodes,
     scrollFails |-> FALSE,
     nodeKinds |-> OrchNodeKinds,
     outcomes |-> {PipelineSays(VeryPositive, HighScore), PipelineRaises},
     apiCalls |-> {"ok", "raises"}]

\* result items of a search on its own: one that cannot be clicked and
\* shows its name in the list, one whose click opens no pane, one whose
\* detail pane shows a review count under the first rating selector, and
\* one that went stale (every lookup in it raises StaleElementReference)
Reviews12 == <<"1","2"," ","r","e","v","i","e","w","s">>
ClosedItem(name) ==
    [click |-> "raises", stale |-> FALSE,
     card |-> (".fontHeadlineSmall" :> name),
     detail |-> <<>>,
     url |-> <<MapsHost>> \o PlacePath \o name]
UnloadedItem(name) ==
    [click |-> "no pane", stale |-> FALSE,
     card |-> (".fontHeadlineSmall" :> name),
     detail |-> <<>>,
     url |-> <<MapsHost>> \o PlacePath \o name]
CountedItem(name) ==
    [click |-> "opens", stale |-> FALSE,
     card |-> (".fontHeadlineSmall" :> name),
     detail |-> ("h1" :> name @@ "[jsaction*='pane.rating.moreReviews']" :> Reviews12),
     url |-> <<MapsHost>> \o PlacePath \o name]
StaleItem ==
    [click |-> "raises", stale |-> TRUE,
     card |-> (".fontHeadlineSmall" :> Dive),
     detail |-> <<>>,
     url |-> <<MapsHost>> \o PlacePath \o Dive]

\* the site of a search on its own
DiscoverWeb ==
    [chromeStarts |-> {"ok", "absent"},
     edgeStarts |-> BOOLEAN,
     searchFails |-> TRUE,
     pages |-> {ResultsPage(items) :
                  items \in SeqsUpTo({OpeningItem(Cafe), ClosedItem(Dive), UnloadedItem(Dive),
                                      CountedItem(Dive), NamelessItem, StaleItem},
                                     MaxItems)}]

\* what a batch classified on its own meets: texts, and a pipeline that
\* answers with one of the five labels, with a label of another vocabulary,
\* or raises
Label0 == <<"L","A","B","E","L","_","0">>
NineOfTen == <<"9","/","1","0">>
Mixed == <<"M","i","x","e","d">>
RatherPositive == <<"R","a","t","h","e","r"," ","P","o","s","i","t","i","v","e">>
NegativeUpper == <<"N","E","G","A","T","I","V","E",".">>
ClassifyWeb ==
    [texts |-> {<<>>, Blank, Good},
     outcomes |-> {PipelineRaises} \cup
                  {PipelineSays(l, HighScore) :
                      l \in {VeryNegative, Negative, Neutral, Positive, VeryPositive,
                              FiveStars, Label0, NineOfTen, Mixed, RatherPositive,
                              NegativeUpper}}]

\* the pieces a detail URL is made of after the host
Query == <<"?","h","l">>
UrlParts == {PlacePath, ReviewsPath, SearchPath, <<"/">>, Cafe, Query}

RECURSIVE Flatten(_)
Flatten(ss) == IF ss = <<>> THEN <<>> ELSE ss[1] \o Flatten(Tail(ss))

\* the detail URLs a listing may carry: none, or the host and some pieces
UrlWeb ==
    [urls |-> {<<>>} \cup {<<MapsHost>> \o Flatten(ps) : ps \in SeqsUpTo(UrlParts, MaxSegments)}]

\* the pieces the text of a rating element is made of; no text made of
\* them starts with more than four digits, which keeps a rating in units
\* within the integers of the checker
RatingPieces ==
    {Rated45, <<" ">>, <<"(","1","2","3"," ","r","e","v","i","e","w","s",")">>,
     <<" ","1","2"," ","r","e","v","i","e","w","s">>, NoRating, <<"4">>, <<".">>,
     <<"7"," ","R","e","v","i","e","w">>, <<"(">>,
     <<"R","E","V","I","E","W","S",")">>, <<",">>}

\* the texts a rating element may show
RatingWeb ==
    [rating_texts |-> {Flatten(ps) : ps \in SeqsUpTo(RatingPieces, MaxPieces)}]

\* the pieces a star text is made of
StarPieces ==
    {<<"5">>, <<" ","s","t","a","r","s">>, <<"4",".","7">>, <<"0">>, <<"1","0">>,
     NoRating, <<".">>, <<"R","a","t","e","d"," ">>}

\* the star texts a review may carry
StarsWeb ==
    [star_texts |-> {Flatten(ps) : ps \in SeqsUpTo(StarPieces, MaxPieces)}]

\* the site named by web
World ==
    CASE web = "summary" -> SummaryWeb
      [] web = "scrape" -> ScrapeWeb
      [] web = "orchestration" -> OrchWeb
      [] web = "classify" -> ClassifyWeb
      [] web = "urls" -> UrlWeb
      [] web = "ratings" -> RatingWeb
      [] web = "discovery" -> DiscoverWeb
      [] web = "stars" -> StarsWeb

----------------------------------------------------------------------------
(* Review scraper: the steps of _scrape_single_google_reviews *)

\* the scraper is not running
ScrapeIdle ==
    /\ spc = "idle"
    /\ scroll_limit = 0
    /\ browser = "none"
    /\ liveBrowsers = 0
    /\ reviews = 0
    /\ attempts = 0
    /\ records = <<>>
    /\ seen = <<>>
    /\ scrapeRet = [raised |-> FALSE, df |-> <<>>]

\* the except / finally of lines 321-329, and the early returns: the call
\* returns df and the browser is quit
ScrapeReturn(df) ==
    /\ spc' = "returned"
    /\ scrapeRet' = [raised |-> FALSE, df |-> df]
    /\ browser' = "quit"
    /\ liveBrowsers' = liveBrowsers - 1

\* an exception leaves the call at a line outside the try statement
ScrapeRaise ==
    /\ spc' = "raised"
    /\ scrapeRet' = [raised |-> TRUE, df |-> <<>>]

\* line 132: self.setup_browser() starts Chrome, or raises when the local
\* and the system driver both fail
SetupBrowser ==
    /\ spc = "setup"
    /\ \E ok \in World.browserStarts :
          IF ok
          THEN /\ spc' = "get"
               /\ browser' = "live"
               /\ liveBrowsers' = liveBrowsers + 1
               /\ UNCHANGED scrapeRet
          ELSE /\ ScrapeRaise
               /\ UNCHANGED <<browser, liveBrowsers>>
    /\ UNCHANGED <<unitVars, web, clock, summaryVars, discVars, orchVars, scroll_limit, reviews, attempts,
                   records, seen>>

\* line 134: browser.get(url), before the try statement
Navigate ==
    /\ spc = "get"
    /\ \E ok \in World.pageLoads :
          IF ok
          THEN /\ spc' = "tab"
               /\ UNCHANGED scrapeRet
          ELSE ScrapeRaise
    /\ UNCHANGED <<unitVars, web, clock, summaryVars, discVars, orchVars, scroll_limit, browser, liveBrowsers,
                   reviews, attempts, records, seen>>

\* lines 139-181: find the reviews tab and click it
OpenReviewsTab ==
    /\ spc = "tab"
    /\ \E tab \in World.tabs :
          IF tab = "found"
          THEN /\ spc' = "nodes"
               /\ UNCHANGED <<scrapeRet, browser, liveBrowsers>>
          ELSE \* "absent": line 177; "error": the click raises, line 324
               ScrapeReturn(<<>>)
    /\ UNCHANGED <<unitVars, web, clock, summaryVars, discVars, orchVars, scroll_limit, reviews, attempts,
                   records, seen>>

\* lines 197-215: the first query for review nodes
FindReviews ==
    /\ spc = "nodes"
    /\ \E n \in World.nodeCounts :
          IF n = 0
          THEN /\ ScrapeReturn(<<>>)
               /\ UNCHANGED reviews
          ELSE /\ reviews' = n
               /\ spc' = "scroll"
               /\ UNCHANGED <<scrapeRet, browser, liveBrowsers>>
    /\ UNCHANGED <<unitVars, web, clock, summaryVars, discVars, orchVars, scroll_limit, attempts, records, seen>>

\* lines 219-247: one iteration of the scroll loop; n is the number of
\* nodes the re-query finds
ScrollOnce ==
    /\ spc = "scroll"
    /\ reviews < scroll_limit
    /\ \/ \E n \in World.nodeCounts :
             /\ IF n = reviews
                THEN /\ attempts' = attempts + 1
                     /\ spc' = (IF attempts + 1 >= MaxStalls THEN "extract" ELSE "scroll")
                     /\ UNCHANGED reviews
                ELSE /\ attempts' = 0
                     /\ reviews' = n
                     /\ UNCHANGED spc
             /\ UNCHANGED <<scrapeRet, browser, liveBrowsers>>
       \/ \* scrolling from the last node raises
          /\ World.scrollFails
          /\ reviews > 0
          /\ ScrapeReturn(<<>>)
          /\ UNCHANGED <<reviews, attempts>>
    /\ UNCHANGED <<unitVars, web, clock, summaryVars, discVars, orchVars, scroll_limit, records, seen>>

\* line 219: the loop condition fails
ScrollDone ==
    /\ spc = "scroll"
    /\ reviews >= scroll_limit
    /\ spc' = "extract"
    /\ UNCHANGED <<unitVars, web, clock, summaryVars, discVars, orchVars, scroll_limit, browser, liveBrowsers,
                   reviews, attempts, records, seen, scrapeRet>>

\* lines 251-316: one node of the extraction loop
ExtractReview ==
    /\ spc = "extract"
    /\ Len(seen) < reviews
    /\ \E node \in World.nodeKinds :
          LET stars == ExtractStars(NoRating, node.stars)
              review_text == ExtractReviewText(NoReviewText, node.texts)
          IN  IF node.fails
              THEN \* line 314: the node is skipped
                   /\ seen' = Append(seen, [processed |-> FALSE])
                   /\ UNCHANGED records
              ELSE /\ seen' = Append(seen, [processed |-> TRUE,
                                            review_text |-> review_text])
                   /\ records' = (IF Retained(review_text)
                                  THEN Append(records, ScrapedRow(stars, review_text))
                                  ELSE records)
    /\ UNCHANGED <<unitVars, web, clock, summaryVars, discVars, orchVars, spc, scroll_limit, browser,
                   liveBrowsers, reviews, attempts, scrapeRet>>

\* lines 318-319 and 325-329: return the dataframe, quit the browser
ScrapeFinish ==
    /\ spc = "extract"
    /\ Len(seen) = reviews
    /\ ScrapeReturn(records)
    /\ UNCHANGED <<unitVars, web, clock, summaryVars, discVars, orchVars, scroll_limit, reviews, attempts,
                   records, seen>>

----------------------------------------------------------------------------
(* Listing discovery: CompetitorSearchService.search_competitors *)

NoPage == [url |-> <<>>, frame |-> <<>>, items |-> <<>>]

\* discovery is not running
DiscoveryIdle ==
    /\ dpc = "idle"
    /\ max_results = 0
    /\ driver = "none"
    /\ page = NoPage
    /\ pane = 0
    /\ found = <<>>
    /\ items_done = 0
    /\ discRet = [raised |-> FALSE, competitors |-> <<>>]
    /\ launches = <<>>

\* setup_browser, lines 44-51: start Chrome and configure it
StartChrome ==
    /\ dpc = "chrome"
    /\ launches' = Append(launches, "chrome")
    /\ \E chrome \in World.chromeStarts :
          CASE chrome = "ok" ->
                  /\ driver' = "chrome"
                  /\ liveBrowsers' = liveBrowsers + 1
                  /\ dpc' = "search"
            [] chrome = "absent" ->
                  \* webdriver.Chrome raises: line 52
                  /\ dpc' = "edge"
                  /\ UNCHANGED <<driver, liveBrowsers>>
            [] chrome = "unconfigurable" ->
                  \* Chrome runs, execute_script raises: line 52
                  /\ dpc' = "edge"
                  /\ liveBrowsers' = liveBrowsers + 1
                  /\ UNCHANGED driver
    /\ UNCHANGED <<unitVars, web, clock, summaryVars, orchVars, spc, scroll_limit, browser,
                   reviews, attempts, records, seen, scrapeRet, max_results,
                   page, pane, found, items_done, discRet>>

\* a fallback that starts over with Chrome when Edge fails
StartEdge_Retry ==
    /\ dpc = "edge"
    /\ launches' = Append(launches, "edge")
    /\ \E ok \in World.edgeStarts :
          IF ok
          THEN /\ driver' = "edge"
               /\ liveBrowsers' = liveBrowsers + 1
               /\ dpc' = "search"
          ELSE /\ dpc' = "chrome"
               /\ UNCHANGED <<driver, liveBrowsers>>
    /\ UNCHANGED <<unitVars, web, clock, summaryVars, orchVars, spc, scroll_limit, browser,
                   reviews, attempts, records, seen, scrapeRet, max_results,
                   page, pane, found, items_done, discRet>>

\* _setup_edge_fallback; when it fails setup_browser and search_competitors
\* raise (lines 78, 60, 102) with no driver to quit
StartEdge ==
    /\ dpc = "edge"
    /\ launches' = Append(launches, "edge")
    /\ \E ok \in World.edgeStarts :
          IF ok
          THEN /\ driver' = "edge"
               /\ liveBrowsers' = liveBrowsers + 1
               /\ dpc' = "search"
               /\ UNCHANGED discRet
          ELSE /\ dpc' = "raised"
               /\ discRet' = [raised |-> TRUE, competitors |-> <<>>]
               /\ UNCHANGED <<driver, liveBrowsers>>
    /\ UNCHANGED <<unitVars, web, clock, summaryVars, orchVars, spc, scroll_limit, browser,
                   reviews, attempts, records, seen, scrapeRet, max_results,
                   page, pane, found, items_done>>

\* _search_google_maps up to line 205: load the results page and locate at
\* most max_results result items
SearchMaps ==
    /\ dpc = "search"
    /\ \/ \E p \in World.pages :
             /\ page' = [p EXCEPT !.items =
                            SubSeq(p.items, 1, IF Len(p.items) < max_results
                                               THEN Len(p.items) ELSE max_results)]
             /\ dpc' = "items"
       \/ \* driver.get raises: line 156, no competitors
          /\ World.searchFails
          /\ dpc' = "items"
          /\ UNCHANGED page
    /\ UNCHANGED <<unitVars, web, clock, summaryVars, orchVars, scrapeVars, max_results,
                   driver, pane, found, items_done, discRet, launches>>

\* the loop without the try statement of lines 206-222: an item that raises
\* ends the loop at the except clause of line 224
ExtractItem_Abort ==
    /\ dpc = "items"
    /\ items_done < Len(page.items)
    /\ LET one == ExtractOne(page, pane, items_done + 1)
       IN  /\ pane' = one.pane
           /\ found' = found \o one.data
           /\ items_done' = IF one.data = <<>> THEN Len(page.items) ELSE items_done + 1
    /\ UNCHANGED <<unitVars, web, clock, summaryVars, orchVars, scrapeVars, dpc, max_results,
                   driver, page, discRet, launches>>

\* _extract_competitor_data, lines 205-222: one result item
ExtractItem ==
    /\ dpc = "items"
    /\ items_done < Len(page.items)
    /\ LET one == ExtractOne(page, pane, items_done + 1)
       IN  /\ pane' = one.pane
           /\ found' = found \o one.data
    /\ items_done' = items_done + 1
    /\ UNCHANGED <<unitVars, web, clock, summaryVars, orchVars, scrapeVars, dpc, max_results,
                   driver, page, discRet, launches>>

\* search_competitors lines 103-107 and search_and_get_reviews_urls lines
\* 515-522: quit the driver, attach the reviews URLs, return
FinishSearch ==
    /\ dpc = "items"
    /\ items_done = Len(page.items)
    /\ driver' = "quit"
    /\ liveBrowsers' = liveBrowsers - 1
    /\ dpc' = "returned"
    /\ discRet' = [raised |-> FALSE, competitors |-> WithReviewsUrls(found)]
    /\ page' = NoPage
    /\ pane' = 0
    /\ UNCHANGED <<unitVars, web, clock, summaryVars, orchVars, spc, scroll_limit, browser,
                   reviews, attempts, records, seen, scrapeRet, max_results,
                   found, items_done, launches>>

----------------------------------------------------------------------------
(* Orchestrator: SentimentAnalyzer.analyze_competitors_sentiment *)

NoTrace == [scrapes |-> <<>>, classified |-> 0, narratives |-> 0]

\* the orchestrator is not running
OrchIdle ==
    /\ self = [api_key |-> FALSE, sentiment_pipeline |-> FALSE]
    /\ pc = "idle"
    /\ reviews_per_competitor = 0
    /\ competitors = <<>>
    /\ ci = 0
    /\ competitor_results = <<>>
    /\ all_reviews = <<>>
    /\ report = <<>>
    /\ trace = NoTrace

\* lines 659-663 and 755-759
ErrorReport(error) == [error |-> error, competitors |-> <<>>, analysis_results |-> <<>>]

\* an orchestrator without the outer except clause
OnException_Propagates(error) == [pc |-> "raised", report |-> <<>>]

\* the outer except clause, lines 753-759: the call returns an error report
OnException(error) == [pc |-> "done", report |-> ErrorReport(error)]

\* an orchestrator without the test of line 658
NoCompetitors_Unchecked(listings) == FALSE

\* line 658: if not competitors
NoCompetitors(listings) == listings = <<>>

\* a loop that a failed listing ends
NextListing_Abort(i, failed) == IF failed THEN Len(competitors) + 1 ELSE i + 1

\* the index the loop of line 669 goes to after listing i, whether listing
\* i went through (line 722) or was given up (lines 677, 679, 724-726)
NextListing(i, failed) == i + 1

\* scraper and discovery variables as they are between calls; dpc keeps
\* how search_and_get_reviews_urls ended
ResetScrape ==
    /\ spc' = "idle"
    /\ scroll_limit' = 0
    /\ browser' = "none"
    /\ reviews' = 0
    /\ attempts' = 0
    /\ records' = <<>>
    /\ seen' = <<>>
    /\ scrapeRet' = [raised |-> FALSE, df |-> <<>>]

ResetDiscovery ==
    /\ UNCHANGED <<dpc, launches>>
    /\ max_results' = 0
    /\ driver' = "none"
    /\ page' = NoPage
    /\ pane' = 0
    /\ found' = <<>>
    /\ items_done' = 0
    /\ discRet' = [raised |-> FALSE, competitors |-> <<>>]

\* lines 654-663: search_and_get_reviews_urls has returned or raised
AfterDiscovery ==
    /\ pc = "discovering"
    /\ dpc \in {"returned", "raised"}
    /\ IF discRet.raised
       THEN /\ pc' = OnException("Competitor search failed").pc
            /\ report' = OnException("Competitor search failed").report
            /\ UNCHANGED <<competitors, ci>>
       ELSE IF NoCompetitors(discRet.competitors)
       THEN /\ pc' = "done"
            /\ report' = ErrorReport("No competitors found")
            /\ UNCHANGED <<competitors, ci>>
       ELSE /\ pc' = "loop"
            /\ competitors' = discRet.competitors
            /\ ci' = 1
            /\ UNCHANGED report
    /\ ResetDiscovery
    /\ UNCHANGED <<unitVars, web, clock, summaryVars, scrapeVars, self, reviews_per_competitor,
                   competitor_results, all_reviews, trace>>

\* lines 669-677: the next listing; scrape_google_reviews is called when it
\* has a reviews URL
StartScrape ==
    /\ pc = "loop"
    /\ ci <= Len(competitors)
    /\ IF competitors[ci].reviews_url # <<>>
       THEN /\ pc' = "scraping"
            /\ spc' = "setup"
            /\ scroll_limit' = reviews_per_competitor
            /\ trace' = [trace EXCEPT !.scrapes = Append(@, ci)]
            /\ UNCHANGED ci
       ELSE /\ ci' = NextListing(ci, TRUE)
            /\ UNCHANGED <<pc, spc, scroll_limit, trace>>
    /\ UNCHANGED <<unitVars, web, clock, summaryVars, discVars, self, reviews_per_competitor,
                   competitors, competitor_results, all_reviews, report,
                   browser, liveBrowsers, reviews, attempts, records, seen, scrapeRet>>

\* rows of df_processed after lines 720-721
Tagged(df_processed, competitor) ==
    [k \in 1..Len(df_processed) |->
        [Stars |-> df_processed[k].Stars,
         ReviewText |-> df_processed[k].ReviewText,
         Sentiment |-> df_processed[k].Sentiment,
         Polarity |-> df_processed[k].Polarity,
         Subjectivity |-> df_processed[k].Subjectivity,
         Confidence |-> df_processed[k].Confidence,
         StarRating |-> df_processed[k].StarRating,
         AnalysisDate |-> df_processed[k].AnalysisDate,
         competitor_name |-> competitor.name,
         competitor_rating |-> competitor.rating]]

\* GPTInsightsService.generate_sentiment_insights: the narrative of the
\* collaborator, or the mock one without a key or when the call fails
generate_sentiment_insights(has_key, api) ==
    IF has_key /\ api = "ok" THEN "generated" ELSE "mock"

\* a listing kept whenever its scrape returned, reviews or none
NothingToAnalyse_OnlyRaised(ret) == ret.raised

\* lines 676-678 and 723-725: the scrape raised, or returned an empty
\* dataframe, and the listing is passed over
NothingToAnalyse(ret) == ret.raised \/ ret.df = <<>>

\* lines 677-726: scrape_google_reviews has returned or raised; classify,
\* summarize, ask for the listing's narrative, keep the result
AfterScrape ==
    /\ pc = "scraping"
    /\ spc \in {"returned", "raised"}
    /\ IF NothingToAnalyse(scrapeRet)
       THEN /\ ci' = NextListing(ci, TRUE)
            /\ UNCHANGED <<competitor_results, all_reviews, trace>>
       ELSE \E outs \in [1..Len(scrapeRet.df) -> World.outcomes], api \in World.apiCalls :
               LET df_processed == process_reviews_dataframe(
                                       scrapeRet.df, self.sentiment_pipeline, outs, clock)
                   summary == generate_sentiment_summary(df_processed, clock).ret
                   tagged == Tagged(df_processed, competitors[ci])
               IN  /\ competitor_results' = Append(competitor_results,
                          [competitor_info |-> competitors[ci],
                           reviews_data |-> tagged,
                           sentiment_summary |-> summary,
                           total_reviews_analyzed |-> Len(df_processed),
                           ai_insights |-> generate_sentiment_insights(self.api_key, api)])
                   /\ all_reviews' = Append(all_reviews, tagged)
                   /\ trace' = [trace EXCEPT !.classified = @ + Len(df_processed),
                                             !.narratives = @ + 1]
                   /\ ci' = NextListing(ci, FALSE)
    /\ pc' = "loop"
    /\ ResetScrape
    /\ UNCHANGED <<unitVars, web, clock, summaryVars, discVars, self, reviews_per_competitor,
                   competitors, report, liveBrowsers>>

\* SentimentAnalyzer.generate_competitor_insights
generate_competitor_insights(has_key, api) ==
    IF has_key
    THEN IF api = "ok" THEN [summary |-> "generated", full_analysis |-> "generated"]
         ELSE [error |-> "Google AI API error"]
    ELSE [summary |-> "mock", full_analysis |-> "mock"]

\* a combination that counts the listings discovered, not the listings
\* analysed
Combine_CountsListings ==
    /\ pc = "loop"
    /\ ci > Len(competitors)
    /\ \E api \in World.apiCalls :
          LET combined_df == Concat(all_reviews)
              combined_analysis ==
                  IF all_reviews # <<>>
                  THEN [combined_summary |-> generate_sentiment_summary(combined_df, clock).ret,
                        combined_data |-> combined_df,
                        total_competitors_analyzed |-> Len(competitors),
                        total_reviews_analyzed |-> Len(combined_df)]
                  ELSE <<>>
          IN  report' = [industry |-> "industry",
                         region |-> "region",
                         competitors |-> competitors,
                         competitor_results |-> competitor_results,
                         combined_analysis |-> combined_analysis,
                         ai_insights |-> generate_competitor_insights(self.api_key, api),
                         generated_at |-> clock]
    /\ pc' = "done"
    /\ trace' = [trace EXCEPT !.narratives = @ + 1]
    /\ UNCHANGED <<unitVars, web, clock, summaryVars, scrapeVars, discVars, self,
                   reviews_per_competitor, competitors, ci, competitor_results,
                   all_reviews>>

\* lines 728-751: combine, ask for the industry narrative, return
Combine ==
    /\ pc = "loop"
    /\ ci > Len(competitors)
    /\ \E api \in World.apiCalls :
          LET combined_df == Concat(all_reviews)
              combined_analysis ==
                  IF all_reviews # <<>>
                  THEN [combined_summary |-> generate_sentiment_summary(combined_df, clock).ret,
                        combined_data |-> combined_df,
                        total_competitors_analyzed |-> Len(competitor_results),
                        total_reviews_analyzed |-> Len(combined_df)]
                  ELSE <<>>
          IN  report' = [industry |-> "industry",
                         region |-> "region",
                         competitors |-> competitors,
                         competitor_results |-> competitor_results,
                         combined_analysis |-> combined_analysis,
                         ai_insights |-> generate_competitor_insights(self.api_key, api),
                         generated_at |-> clock]
    /\ pc' = "done"
    /\ trace' = [trace EXCEPT !.narratives = @ + 1]
    /\ UNCHANGED <<unitVars, web, clock, summaryVars, scrapeVars, discVars, self,
                   reviews_per_competitor, competitors, ci, competitor_results,
                   all_reviews>>

----------------------------------------------------------------------------
(* Batch classification: SentimentAnalyzer.analyze_sentiment_batch *)

\* no batch is being classified
BatchIdle ==
    /\ batch_texts = <<>>
    /\ batch_results = <<>>
    /\ pipeline_calls = <<>>

\* get_google_reviews_url and the rating parsers are not being exercised
UrlIdle == detail_url = <<>> /\ reviews_urls = <<>>
ParseIdle == rating_elem = <<>> /\ parsed = <<>>
StarsIdle == stars_elem = <<>> /\ star_ratings = <<>>

\* no function is being exercised on its own
UnitIdle == BatchIdle /\ UrlIdle /\ ParseIdle /\ StarsIdle

\* line 371 is reached: the text passes the tests of lines 433 and 360 and
\* the pipeline is there (line 368)
PipelineInvoked(text, loaded) == Strip(text) # <<>> /\ loaded

\* lines 432-442: one iteration of the loop over texts
ClassifyNext ==
    /\ Len(batch_results) < Len(batch_texts)
    /\ LET i == Len(batch_results) + 1
           text == batch_texts[i]
       IN  \E out \in World.outcomes :
              /\ batch_results' =
                    batch_results \o analyze_sentiment_batch(
                                        <<text>>, self.sentiment_pipeline, <<out>>)
              /\ pipeline_calls' =
                    IF PipelineInvoked(text, self.sentiment_pipeline)
                    THEN Append(pipeline_calls, [index |-> i, out |-> out])
                    ELSE pipeline_calls
    /\ UNCHANGED <<web, clock, summaryVars, scrapeVars, discVars, orchVars, batch_texts,
                   urlVars, parseVars, starVars>>

----------------------------------------------------------------------------
(* Reviews URL: CompetitorSearchService.get_google_reviews_url *)

\* get_google_reviews_url(competitor_data), and the same call made on a
\* listing that carries the URL the first call returned
ReviewsUrl ==
    /\ reviews_urls = <<>>
    /\ LET first == get_google_reviews_url(detail_url)
       IN  reviews_urls' = <<first, get_google_reviews_url(first)>>
    /\ UNCHANGED <<web, clock, summaryVars, scrapeVars, discVars, orchVars, batchVars,
                   detail_url, parseVars, starVars>>

----------------------------------------------------------------------------
(* Rating parsers: _extract_rating_number and _extract_review_count *)

\* lines 281-282: both parsers are given the text of the rating element
ParseRating ==
    /\ parsed = <<>>
    /\ parsed' = <<[rating |-> _extract_rating_number(rating_elem),
                    review_count |-> _extract_review_count(rating_elem)]>>
    /\ UNCHANGED <<web, clock, summaryVars, scrapeVars, discVars, orchVars, batchVars,
                   urlVars, rating_elem, starVars>>

----------------------------------------------------------------------------
(* Star rating of a review: SentimentAnalyzer.extract_star_rating *)

\* line 487: extract_star_rating(stars_text)
StarRating ==
    /\ star_ratings = <<>>
    /\ star_ratings' = <<extract_star_rating(stars_elem)>>
    /\ UNCHANGED <<web, clock, summaryVars, scrapeVars, discVars, orchVars, batchVars,
                   urlVars, parseVars, stars_elem>>

----------------------------------------------------------------------------
(* Specifications *)

\* the calls of the harness, in the order they are made: the first set
\* twice, the second set, and the two concatenations
CallOrder == <<"A1", "A2", "B", "AB", "BA">>

CallInput(c) ==
    IF c \in {"A1", "A2"} THEN dfA
    ELSE IF c = "B" THEN dfB
    ELSE IF c = "AB" THEN Concat(<<dfA, dfB>>)
    ELSE Concat(<<dfB, dfA>>)

InitSummary ==
    /\ web = "summary"
    /\ clock = 0
    /\ dfA \in LabeledSets(World, MaxReviews)
    /\ dfB \in LabeledSets(World, MaxOther)
    /\ summaries = <<>>
    /\ ScrapeIdle
    /\ DiscoveryIdle
    /\ OrchIdle
    /\ UnitIdle

\* one call of generate_sentiment_summary; each entry keeps the argument as
\* it was before the call, as it is after it, and the returned dictionary
Summarize ==
    /\ Len(summaries) < Len(CallOrder)
    /\ LET c == CallOrder[Len(summaries) + 1]
           call == generate_sentiment_summary(CallInput(c), clock)
       IN  /\ summaries' = Append(summaries,
                                  [call |-> c, before |-> CallInput(c),
                                   after |-> call.df, ret |-> call.ret])
           /\ dfA' = (IF c \in {"A1", "A2"} THEN call.df ELSE dfA)
           /\ dfB' = (IF c = "B" THEN call.df ELSE dfB)
    /\ UNCHANGED <<unitVars, web, clock, scrapeVars, discVars, orchVars>>

\* a second passes
Tick ==
    /\ clock < MaxClock
    /\ clock' = clock + 1
    /\ UNCHANGED <<unitVars, web, summaryVars, scrapeVars, discVars, orchVars>>

NextSummary == Summarize \/ Tick

SpecSummary == InitSummary /\ [][NextSummary]_vars

\* the limit stands for any larger one when it exceeds MaxNodes
InitScrape ==
    /\ web = "scrape"
    /\ clock = 0
    /\ dfA = <<>> /\ dfB = <<>> /\ summaries = <<>>
    /\ spc = "setup"
    /\ scroll_limit \in 1..(MaxNodes + 1)
    /\ browser = "none"
    /\ liveBrowsers = 0
    /\ reviews = 0
    /\ attempts = 0
    /\ records = <<>>
    /\ seen = <<>>
    /\ scrapeRet = [raised |-> FALSE, df |-> <<>>]
    /\ DiscoveryIdle
    /\ OrchIdle
    /\ UnitIdle

NextScrape ==
    \/ SetupBrowser
    \/ Navigate
    \/ OpenReviewsTab
    \/ FindReviews
    \/ ScrollOnce
    \/ ScrollDone
    \/ ExtractReview
    \/ ScrapeFinish

SpecScrape == InitScrape /\ [][NextScrape]_vars

\* the call keeps running: no statement of it waits for anything but the
\* page, and a step that can be taken is taken
SpecScrapeFair == SpecScrape /\ WF_vars(NextScrape)

\* search_and_get_reviews_urls is called on its own
InitDiscover ==
    /\ web = "discovery"
    /\ clock = 0
    /\ dfA = <<>> /\ dfB = <<>> /\ summaries = <<>>
    /\ ScrapeIdle
    /\ dpc = "chrome"
    /\ max_results \in 1..MaxItems
    /\ driver = "none"
    /\ page = NoPage
    /\ pane = 0
    /\ found = <<>>
    /\ items_done = 0
    /\ discRet = [raised |-> FALSE, competitors |-> <<>>]
    /\ launches = <<>>
    /\ OrchIdle
    /\ UnitIdle

NextDiscover ==
    \/ StartChrome
    \/ StartEdge
    \/ SearchMaps
    \/ ExtractItem
    \/ FinishSearch

SpecDiscover == InitDiscover /\ [][NextDiscover]_vars

\* the state when line 654 calls search_and_get_reviews_urls
Init ==
    /\ web = "orchestration"
    /\ clock = 0
    /\ dfA = <<>> /\ dfB = <<>> /\ summaries = <<>>
    /\ ScrapeIdle
    /\ dpc = "chrome"
    /\ max_results \in 1..MaxItems
    /\ driver = "none"
    /\ page = NoPage
    /\ pane = 0
    /\ found = <<>>
    /\ items_done = 0
    /\ discRet = [raised |-> FALSE, competitors |-> <<>>]
    /\ launches = <<>>
    /\ self \in [api_key : BOOLEAN, sentiment_pipeline : BOOLEAN]
    /\ pc = "discovering"
    /\ reviews_per_competitor \in 1..(MaxNodes + 1)
    /\ competitors = <<>>
    /\ ci = 0
    /\ competitor_results = <<>>
    /\ all_reviews = <<>>
    /\ report = <<>>
    /\ trace = NoTrace
    /\ UnitIdle

Next ==
    \/ StartChrome
    \/ StartEdge
    \/ SearchMaps
    \/ ExtractItem
    \/ FinishSearch
    \/ AfterDiscovery
    \/ StartScrape
    \/ SetupBrowser
    \/ Navigate
    \/ OpenReviewsTab
    \/ FindReviews
    \/ ScrollOnce
    \/ ScrollDone
    \/ ExtractReview
    \/ ScrapeFinish
    \/ AfterScrape
    \/ Combine

Spec == Init /\ [][Next]_vars

\* analyze_sentiment_batch is called with a list of texts, by an analyzer
\* whose pipeline was loaded or not (lines 45-57)
InitClassify ==
    /\ web = "classify"
    /\ clock = 0
    /\ dfA = <<>> /\ dfB = <<>> /\ summaries = <<>>
    /\ ScrapeIdle
    /\ DiscoveryIdle
    /\ self \in [api_key : {FALSE}, sentiment_pipeline : BOOLEAN]
    /\ pc = "idle"
    /\ reviews_per_competitor = 0
    /\ competitors = <<>>
    /\ ci = 0
    /\ competitor_results = <<>>
    /\ all_reviews = <<>>
    /\ report = <<>>
    /\ trace = NoTrace
    /\ batch_texts \in SeqsUpTo(World.texts, MaxBatch)
    /\ batch_results = <<>>
    /\ pipeline_calls = <<>>
    /\ UrlIdle
    /\ ParseIdle
    /\ StarsIdle

NextClassify == ClassifyNext

SpecClassify == InitClassify /\ [][NextClassify]_vars

\* get_google_reviews_url is called with a listing
InitUrl ==
    /\ web = "urls"
    /\ clock = 0
    /\ dfA = <<>> /\ dfB = <<>> /\ summaries = <<>>
    /\ ScrapeIdle
    /\ DiscoveryIdle
    /\ OrchIdle
    /\ BatchIdle
    /\ detail_url \in World.urls
    /\ reviews_urls = <<>>
    /\ ParseIdle
    /\ StarsIdle

NextUrl == ReviewsUrl

SpecUrl == InitUrl /\ [][NextUrl]_vars

\* the parsers are called with the text of a rating element
InitParse ==
    /\ web = "ratings"
    /\ clock = 0
    /\ dfA = <<>> /\ dfB = <<>> /\ summaries = <<>>
    /\ ScrapeIdle
    /\ DiscoveryIdle
    /\ OrchIdle
    /\ BatchIdle
    /\ UrlIdle
    /\ rating_elem \in World.rating_texts
    /\ parsed = <<>>
    /\ StarsIdle

NextParse == ParseRating

SpecParse == InitParse /\ [][NextParse]_vars

\* extract_star_rating is called with the star text of a review
InitStars ==
    /\ web = "stars"
    /\ clock = 0
    /\ dfA = <<>> /\ dfB = <<>> /\ summaries = <<>>
    /\ ScrapeIdle
    /\ DiscoveryIdle
    /\ OrchIdle
    /\ BatchIdle
    /\ UrlIdle
    /\ ParseIdle
    /\ stars_elem \in World.star_texts
    /\ star_ratings = <<>>

NextStars == StarRating

SpecStars == InitStars /\ [][NextStars]_vars

----------------------------------------------------------------------------
(* Properties of the aggregation engine (SpecSummary) *)

\* 0.01, in units
Tolerance == Unit \div 100

\* the entry of a call of the harness, once made
Made(c) == \E i \in 1..Len(summaries) : summaries[i].call = c
Entry(c) == summaries[CHOOSE i \in 1..Len(summaries) : summaries[i].call = c]

\* the number of rows of df in bucket s, counted independently of the code
InBucket(df, s) == Cardinality({i \in 1..Len(df) : df[i].Sentiment = s})

\* a float rounded to two decimals, in hundredths
Round2(x) == RDiv(x * 100, Unit)

WithoutDate(ret) == IF ret = <<>> THEN <<>> ELSE [ret EXCEPT !.analysis_date = 0]

\* C7: for every non-empty labeled review set, at listing scope (the calls
\* on one set) and at industry scope (the calls on a concatenation), the
\* three percentages of the summary add up to 100 within 0.01.
C7_PercentagesSumTo100 ==
    \A i \in 1..Len(summaries) :
        summaries[i].before # <<>> =>
            LET pct == summaries[i].ret.sentiment_percentages
            IN  Abs(pct["Positive"] + pct["Negative"] + pct["Neutral"] - 100 * Unit)
                    <= Tolerance

\* an industry-scope summary in which every bucket has a member and the
\* percentages are not whole numbers
C7_Witness ==
    /\ Made("AB")
    /\ Len(Entry("AB").before) = 3
    /\ \A s \in Buckets : Entry("AB").ret.sentiment_percentages[s] > 0

\* C8: for every non-empty input the summary has total_reviews = number of
\* rows, percentages for exactly the three buckets, each bucket_count /
\* total * 100 (within 0.01) and exactly 0 for a bucket without member;
\* labels [Positive, Positive, Negative] give 3 and 66.67 / 33.33 / 0.0.
C8_SummaryShape ==
    \A i \in 1..Len(summaries) :
        LET df == summaries[i].before
            ret == summaries[i].ret
        IN  df # <<>> =>
                /\ ret.total_reviews = Len(df)
                /\ DOMAIN ret.sentiment_percentages = Buckets
                /\ \A s \in Buckets :
                      /\ Abs(ret.sentiment_percentages[s] * Len(df)
                                - InBucket(df, s) * 100 * Unit) <= Tolerance * Len(df)
                      /\ InBucket(df, s) = 0 => ret.sentiment_percentages[s] = 0
                /\ [k \in 1..Len(df) |-> df[k].Sentiment]
                        = <<"Positive", "Positive", "Negative">> =>
                      /\ ret.total_reviews = 3
                      /\ Round2(ret.sentiment_percentages["Positive"]) = 6667
                      /\ Round2(ret.sentiment_percentages["Negative"]) = 3333
                      /\ ret.sentiment_percentages["Neutral"] = 0

\* the summary of [Positive, Positive, Negative] has been computed
C8_Witness ==
    /\ Made("A1")
    /\ [k \in 1..Len(Entry("A1").before) |-> Entry("A1").before[k].Sentiment]
            = <<"Positive", "Positive", "Negative">>
    /\ "Neutral" \notin DOMAIN Entry("A1").ret.sentiment_counts

\* C9: for two non-empty labeled review sets A and B, the summary of their
\* concatenation has total = total(A) + total(B), each percentage and the
\* average polarity equal to the review-count-weighted combination of the
\* two separate summaries (within 0.01), and is the same for A + B and
\* B + A in every field but the timestamp.
C9_WeightedCombination ==
    (Made("BA") /\ dfA # <<>> /\ dfB # <<>>) =>
        LET a == Entry("A1").ret
            b == Entry("B").ret
            ab == Entry("AB").ret
            ba == Entry("BA").ret
            n == a.total_reviews + b.total_reviews
        IN  /\ ab.total_reviews = n
            /\ \A s \in Buckets :
                  Abs(ab.sentiment_percentages[s] * n
                        - (a.sentiment_percentages[s] * a.total_reviews
                            + b.sentiment_percentages[s] * b.total_reviews))
                     <= Tolerance * n
            /\ Abs(ab.average_polarity * n
                    - (a.average_polarity * a.total_reviews
                        + b.average_polarity * b.total_reviews)) <= Tolerance * n
            /\ WithoutDate(ab) = WithoutDate(ba)

\* two listings of different size and different mix have been combined
C9_Witness ==
    /\ Made("BA")
    /\ Len(dfA) = 3 /\ Len(dfB) = 1
    /\ Entry("A1").ret.sentiment_percentages # Entry("B").ret.sentiment_percentages
    /\ Entry("A1").ret.average_polarity # Entry("B").ret.average_polarity
    /\ Entry("AB").before # Entry("BA").before

----------------------------------------------------------------------------
(* Properties of the review scraper (SpecScrape) *)

\* C1: when a call of _scrape_single_google_reviews that started a browser
\* has returned or raised, on whatever exit path, that browser has been quit.
C1_BrowserQuitOnEveryExit ==
    (spc \in {"returned", "raised"} /\ browser # "none") => browser = "quit"

\* the call has raised out of browser.get with its browser running
C1_Witness ==
    /\ spc = "raised"
    /\ browser = "live"
    /\ liveBrowsers = 1

\* "no review text", written out
LowerSentinelText == <<"n","o"," ","r","e","v","i","e","w"," ","t","e","x","t">>

\* the body is not the sentinel in any letter case
IsBody(review_text) == review_text # <<>> /\ Lower(review_text) # LowerSentinelText

\* C5: of the review nodes processed so far, the retained reviews are, in
\* order, exactly those whose extracted body text is non-empty and differs
\* from "No Review Text" in more than letter case; no retained review has
\* an empty or sentinel body.
C5_RetainedIffBody ==
    LET processed == SelectSeq(seen, LAMBDA s : s.processed)
        bodies == SelectSeq(processed, LAMBDA s : IsBody(s.review_text))
    IN  /\ Len(records) = Len(bodies)
        /\ \A k \in 1..Len(records) :
              /\ records[k].ReviewText = bodies[k].review_text
              /\ IsBody(records[k].ReviewText)

\* a call has returned the one review it retained, after dropping a node
\* whose text is the sentinel in another letter case
C5_Witness ==
    /\ spc = "returned"
    /\ Len(scrapeRet.df) = 1
    /\ \E j \in 1..Len(seen) :
          /\ seen[j].processed
          /\ seen[j].review_text # NoReviewText
          /\ Lower(seen[j].review_text) = LowerSentinelText

----------------------------------------------------------------------------
(* Properties of the orchestrator and of discovery (Spec) *)

\* the keys of a full report and of an error report
ReportKeys ==
    {"industry", "region", "competitors", "competitor_results", "combined_analysis",
     "ai_insights", "generated_at"}
ErrorKeys == {"error", "competitors", "analysis_results"}

IsErrorReport(r) ==
    /\ DOMAIN r = ErrorKeys
    /\ r.competitors = <<>>
    /\ r.analysis_results = <<>>

\* C2: whatever discovery, scraping, classification and the narrative calls
\* do, analyze_competitors_sentiment never raises and what it returns is a
\* report; once discovery has raised (no browser available) the call has
\* returned an error report with competitors = [] and analysis_results = {}.
C2_AlwaysReturnsReport ==
    /\ pc # "raised"
    /\ pc = "done" => (IsErrorReport(report) \/ DOMAIN report = ReportKeys)
    /\ (pc # "discovering" /\ dpc = "raised") => (pc = "done" /\ IsErrorReport(report))

\* discovery found no browser and the call has returned its error report
C2_Witness ==
    /\ pc = "done"
    /\ liveBrowsers = 0
    /\ report = ErrorReport("Competitor search failed")

\* C3: when discovery returns zero listings the call returns exactly
\* {"error": "No competitors found", "competitors": [], "analysis_results": {}}
\* and up to its return no scrape was started, nothing was classified and
\* no narrative was requested.
C3_EmptyDiscoveryShortCircuits ==
    [][(pc = "discovering" /\ dpc = "returned" /\ discRet.competitors = <<>>)
        => /\ pc' = "done"
           /\ report' = [error |-> "No competitors found", competitors |-> <<>>,
                         analysis_results |-> <<>>]
           /\ trace' = [scrapes |-> <<>>, classified |-> 0, narratives |-> 0]
           /\ spc' = "idle" /\ browser' = "none"]_vars

\* discovery ran a browser over a results page, emitted nothing, and the
\* call has returned
C3_Witness ==
    /\ pc = "done"
    /\ "error" \in DOMAIN report
    /\ report.error = "No competitors found"
    /\ trace.scrapes = <<>>

\* s is the beginning of t
IsPrefix(s, t) == Len(s) <= Len(t) /\ SubSeq(t, 1, Len(s)) = s

\* C4: a listing that fails is the only one skipped: when the call returns
\* a full report, a scrape was attempted for every listing with a reviews
\* URL, in discovery order; the results and labeled reviews gathered are
\* never taken back, and are the ones in the report.
C4_FailureSkipsOneListing ==
    /\ []((pc = "done" /\ DOMAIN report = ReportKeys) =>
            /\ trace.scrapes = SelectSeq([k \in 1..Len(competitors) |-> k],
                                         LAMBDA k : competitors[k].reviews_url # <<>>)
            /\ report.competitor_results = competitor_results
            /\ all_reviews # <<>> =>
                  report.combined_analysis.combined_data = Concat(all_reviews))
    /\ [][/\ IsPrefix(competitor_results, competitor_results')
          /\ IsPrefix(all_reviews, all_reviews')]_vars

\* of two listings the first failed to scrape, the second was analysed, and
\* the report holds the second's result
C4_Witness ==
    /\ pc = "done"
    /\ DOMAIN report = ReportKeys
    /\ Len(competitors) = 2
    /\ trace.scrapes = <<1, 2>>
    /\ Len(report.competitor_results) = 1
    /\ report.competitor_results[1].competitor_info = competitors[2]

\* C6: no listing returned by discovery has an empty name, a name of two
\* characters or fewer, a placeholder header for a name, or the synthetic
\* name "Business {index+1}".
C6_NoPlaceholderListing ==
    \A k \in 1..Len(discRet.competitors) :
        LET c == discRet.competitors[k]
        IN  /\ c.name # <<>>
            /\ Len(c.name) > 2
            /\ c.name \notin invalid_names
            /\ c.name # BusinessN(c.index - 1)

\* discovery has returned a listing named "Business 1"
C6_Witness ==
    /\ dpc = "returned"
    /\ \E k \in 1..Len(discRet.competitors) :
          discRet.competitors[k].name = <<"B","u","s","i","n","e","s","s"," ","1">>

----------------------------------------------------------------------------
(* The scroll limit (SpecScrape) *)

\* C11: whatever node counts the page returns, the number of reviews one
\* scrape retains and returns never exceeds the scroll_limit it was given.
C11_RetainedWithinLimit ==
    spc = "returned" => Len(scrapeRet.df) <= scroll_limit

\* a scrape has returned more reviews than its limit
C11_Witness ==
    /\ spc = "returned"
    /\ Len(scrapeRet.df) > scroll_limit
    /\ attempts = 0

----------------------------------------------------------------------------
(* Properties of the classifier (SpecClassify) *)

\* the text is empty or whitespace only
IsBlank(text) == \A i \in 1..Len(text) : text[i] \in WhiteSpace

\* the Neutral / 0.0 / 0.0 default
IsDefault(r) == r.sentiment = "Neutral" /\ r.polarity = 0 /\ r.confidence = 0

\* the invocations of the pipeline made for the i-th text
CallsFor(i) == {k \in 1..Len(pipeline_calls) : pipeline_calls[k].index = i}

\* C12: analyze_sentiment_batch produces one result per text, in order,
\* each a result dictionary (nothing raised); an empty or whitespace-only
\* text gets the Neutral default without a pipeline call, so does every
\* text when the pipeline was never loaded, and so does a text whose
\* pipeline call raises; every other text is still classified by one call.
C12_BatchNeverAborts ==
    /\ Len(batch_results) <= Len(batch_texts)
    /\ \A k \in 1..Len(pipeline_calls) :
          k > 1 => pipeline_calls[k - 1].index < pipeline_calls[k].index
    /\ \A i \in 1..Len(batch_results) :
          LET text == batch_texts[i]
              r == batch_results[i]
          IN  /\ DOMAIN r = {"sentiment", "polarity", "subjectivity", "confidence"}
              /\ IsBlank(text) => (CallsFor(i) = {} /\ IsDefault(r))
              /\ ~self.sentiment_pipeline => (CallsFor(i) = {} /\ IsDefault(r))
              /\ (~IsBlank(text) /\ self.sentiment_pipeline) =>
                    /\ Cardinality(CallsFor(i)) = 1
                    /\ \A k \in CallsFor(i) :
                          IF pipeline_calls[k].out.raises
                          THEN IsDefault(r)
                          ELSE r.confidence = pipeline_calls[k].out.score

\* a batch of two is done: the pipeline raised for the first text and the
\* second was classified Positive
C12_Witness ==
    /\ Len(batch_texts) = 2
    /\ Len(batch_results) = 2
    /\ Len(pipeline_calls) = 2
    /\ pipeline_calls[1].out.raises
    /\ batch_results[2].sentiment = "Positive"

\* C13: for every text and every label the pipeline returns, the derived
\* star-equivalent is one of 1..5 and the polarity of the result lies in
\* [-1.0, 1.0].
C13_StarsAndPolarityInRange ==
    /\ \A k \in 1..Len(pipeline_calls) :
          ~pipeline_calls[k].out.raises =>
              StarsValue(pipeline_calls[k].out.label) \in 1..5
    /\ \A i \in 1..Len(batch_results) :
          /\ batch_results[i].polarity >= -Unit
          /\ batch_results[i].polarity <= Unit

\* the pipeline answered "LABEL_0" and the result has polarity -1.5
C13_Witness ==
    \E k \in 1..Len(pipeline_calls) :
        /\ ~pipeline_calls[k].out.raises
        /\ pipeline_calls[k].out.label = <<"L","A","B","E","L","_","0">>
        /\ pipeline_calls[k].index <= Len(batch_results)
        /\ batch_results[pipeline_calls[k].index].polarity = -(3 * Unit) \div 2
        /\ batch_results[pipeline_calls[k].index].sentiment = "Negative"

----------------------------------------------------------------------------
(* Properties of the returned report (Spec) *)

\* the industry narratives that are not error values
GeneratedNarrative == [summary |-> "generated", full_analysis |-> "generated"]
PlaceholderNarrative == [summary |-> "mock", full_analysis |-> "mock"]

\* C14: in a full report the industry narrative is the collaborator's or,
\* when the request failed or no credential is configured, the templated
\* placeholder, never an error value; the listings and the per-listing
\* results computed before the request are returned as they were.
C14_NarrativeFailureGivesPlaceholder ==
    (pc = "done" /\ DOMAIN report = ReportKeys) =>
        /\ report.ai_insights \in {GeneratedNarrative, PlaceholderNarrative}
        /\ ~self.api_key => report.ai_insights = PlaceholderNarrative
        /\ report.competitors = competitors
        /\ report.competitor_results = competitor_results

\* a report with a listing's result whose industry narrative is an error
C14_Witness ==
    /\ pc = "done"
    /\ DOMAIN report = ReportKeys
    /\ self.api_key
    /\ Len(report.competitor_results) = 1
    /\ DOMAIN report.ai_insights = {"error"}

\* C15: whenever discovery returned a listing, the returned report carries
\* the combined totals and the combined percentages of the three buckets,
\* with zero totals when no review was retained for any listing.
C15_CombinedFieldsPresent ==
    (pc = "done" /\ DOMAIN report = ReportKeys /\ competitors # <<>>) =>
        LET combined == report.combined_analysis
        IN  /\ {"total_competitors_analyzed", "total_reviews_analyzed",
                "combined_summary"} \subseteq DOMAIN combined
            /\ "sentiment_percentages" \in DOMAIN combined.combined_summary
            /\ DOMAIN combined.combined_summary.sentiment_percentages = Buckets
            /\ all_reviews = <<>> =>
                  /\ combined.total_competitors_analyzed = 0
                  /\ combined.total_reviews_analyzed = 0

\* two listings were discovered, no review was retained for either, and the
\* report's combined_analysis is the empty dictionary
C15_Witness ==
    /\ pc = "done"
    /\ DOMAIN report = ReportKeys
    /\ Len(competitors) = 2
    /\ trace.scrapes = <<1, 2>>
    /\ report.combined_analysis = <<>>

----------------------------------------------------------------------------
(* Properties of the reviews URL (SpecUrl) *)

\* without its trailing slashes, written without str.rstrip: the prefix of u
\* that does not end in a slash and is followed by slashes only
IsSlashStripped(p, u) ==
    /\ Len(p) <= Len(u)
    /\ p = SubSeq(u, 1, Len(p))
    /\ (p = <<>> \/ p[Len(p)] # "/")
    /\ \A i \in (Len(p) + 1)..Len(u) : u[i] = "/"

\* C16 as stated: the reviews URL of a detail URL u is u with "/reviews"
\* appended exactly when u contains "/place/" and does not end in "/reviews",
\* it is u in every other case, and the operation applied to its own result
\* returns that result
C16_ReviewsUrlAppendsUnlessSuffix ==
    (reviews_urls # <<>> /\ detail_url # <<>>) =>
        /\ reviews_urls[1] =
              IF Contains(detail_url, PlacePath) /\ ~EndsWith(detail_url, ReviewsPath)
              THEN detail_url \o ReviewsPath
              ELSE detail_url
        /\ reviews_urls[2] = reviews_urls[1]

\* C16 amended: the reviews URL of a detail URL u is u without its trailing
\* slashes and with "/reviews" appended exactly when u contains "/place/" and
\* contains "/reviews" nowhere, it is u in every other case, and the operation
\* applied to its own result returns that result
C16_ReviewsUrlAppendsUnlessPresent ==
    (reviews_urls # <<>> /\ detail_url # <<>>) =>
        /\ IF Contains(detail_url, PlacePath) /\ ~Contains(detail_url, ReviewsPath)
           THEN /\ EndsWith(reviews_urls[1], ReviewsPath)
                /\ IsSlashStripped(SubSeq(reviews_urls[1], 1,
                                          Len(reviews_urls[1]) - Len(ReviewsPath)),
                                   detail_url)
           ELSE reviews_urls[1] = detail_url
        /\ reviews_urls[2] = reviews_urls[1]

\* a place URL that ends in a slash got its reviews URL, and so did a place
\* URL left alone for the "/reviews" inside it
C16_Witness ==
    /\ reviews_urls # <<>>
    /\ Contains(detail_url, PlacePath)
    /\ \/ detail_url[Len(detail_url)] = "/" /\ reviews_urls[1] # detail_url
       \/ reviews_urls[1] = detail_url /\ ~EndsWith(detail_url, ReviewsPath)

----------------------------------------------------------------------------
(* Listings without a retained review (Spec) *)

\* the scrape of the current listing has returned an empty dataframe
ScrapedNothing == pc = "scraping" /\ spc = "returned" /\ scrapeRet.df = <<>>

\* C17: the summary of an empty review set is the empty result; a scrape
\* whose nodes all carry no body returns an empty review sequence; a listing
\* whose scrape returns none is passed over without being classified,
\* summarized or given a narrative, so that every per-listing result holds
\* reviews and a summary with its averages, and the combined summary counts
\* the reviews of the per-listing results and no others.
C17_EmptyListingLeavesNothing ==
    /\ [](/\ generate_sentiment_summary(<<>>, clock).ret = <<>>
          /\ (spc = "returned" /\ \A j \in 1..Len(seen) :
                                     seen[j].processed => ~IsBody(seen[j].review_text))
                => scrapeRet.df = <<>>
          /\ \A k \in 1..Len(competitor_results) :
                LET r == competitor_results[k]
                IN  /\ r.reviews_data # <<>>
                    /\ r.total_reviews_analyzed = Len(r.reviews_data)
                    /\ {"total_reviews", "sentiment_percentages", "average_polarity",
                         "average_star_rating"} \subseteq DOMAIN r.sentiment_summary
                    /\ r.sentiment_summary.total_reviews = Len(r.reviews_data)
          /\ \A k \in 1..Len(all_reviews) : all_reviews[k] # <<>>
          /\ (pc = "done" /\ DOMAIN report = ReportKeys) =>
                IF report.competitor_results = <<>>
                THEN report.combined_analysis = <<>>
                ELSE report.combined_analysis.combined_summary.total_reviews =
                        Len(Flatten([k \in 1..Len(report.competitor_results) |->
                                        report.competitor_results[k].reviews_data])))
    /\ [][ScrapedNothing =>
             /\ competitor_results' = competitor_results
             /\ all_reviews' = all_reviews
             /\ trace' = trace]_vars

\* the scrape of a listing has processed a node that carries the sentinel
\* text only, and has returned an empty dataframe
C17_Witness ==
    /\ ScrapedNothing
    /\ ~scrapeRet.raised
    /\ \E j \in 1..Len(seen) : seen[j].processed /\ seen[j].review_text = NoReviewText

----------------------------------------------------------------------------
(* Properties of the rating parsers (SpecParse) *)

\* the value of the decimal number whole.frac, in units, digit by digit
RECURSIVE DecimalValue(_, _)
DecimalValue(whole, frac) ==
    IF frac = <<>> THEN DigitsToNat(whole) * Unit
    ELSE DecimalValue(whole, SubSeq(frac, 1, Len(frac) - 1))
            + DigitValue(frac[Len(frac)]) * (Unit \div Pow10(Len(frac)))

\* t[i..j] is all digits
AllDigits(t, i, j) == i <= j /\ \A k \in i..j : IsDigit(t[k])

\* t[i..j] is the N of a match of "(N reviews)": digits, then optional
\* whitespace, then "review" in any letter case
IsCountMatch(t, i, j) ==
    /\ AllDigits(t, i, j)
    /\ \E m \in (j + 1)..(Len(t) - 5) :
          /\ \A k \in (j + 1)..(m - 1) : t[k] \in WhiteSpace
          /\ Lower(SubSeq(t, m, m + 5)) = <<"r","e","v","i","e","w">>

Example45 == <<"4",".","5"," ","(","1","2","3"," ","r","e","v","i","e","w","s",")">>

\* C18: the rating is the decimal number the text starts with, 0.0 when it
\* starts with none; the review count is the integer of the first match of
\* "(N reviews)", any case, parentheses optional, singular allowed, 0 when
\* there is none; "4.5 (123 reviews)" gives 4.5 and 123, "No Rating" gives
\* 0.0 and 0.
C18_RatingAndCountParsed ==
    parsed # <<>> =>
        LET t == rating_elem
            got == parsed[1]
            n == Len(t)
            matches == {ij \in (1..n) \X (1..n) : IsCountMatch(t, ij[1], ij[2])}
        IN  /\ IF t = <<>> \/ ~IsDigit(t[1]) THEN got.rating = 0
               ELSE \E w \in 1..n :
                      /\ AllDigits(t, 1, w)
                      /\ w = n \/ ~IsDigit(t[w + 1])
                      /\ IF w < n /\ t[w + 1] = "."
                         THEN \E f \in (w + 1)..n :
                                 /\ f = w + 1 \/ AllDigits(t, w + 2, f)
                                 /\ f = n \/ ~IsDigit(t[f + 1])
                                 /\ got.rating = DecimalValue(SubSeq(t, 1, w),
                                                              SubSeq(t, w + 2, f))
                         ELSE got.rating = DecimalValue(SubSeq(t, 1, w), <<>>)
            /\ IF matches = {} THEN got.review_count = 0
               ELSE \E ij \in matches :
                      /\ \A other \in matches : ij[1] <= other[1]
                      /\ \A other \in matches : other[1] = ij[1] => other[2] <= ij[2]
                      /\ got.review_count = DigitsToNat(SubSeq(t, ij[1], ij[2]))
            /\ t = Example45 => got.rating = 45 * (Unit \div 10) /\ got.review_count = 123
            /\ t = NoRating => got.rating = 0 /\ got.review_count = 0

\* "4.5 (123 reviews)" has been parsed
C18_Witness ==
    /\ parsed # <<>>
    /\ rating_elem = Example45
    /\ parsed[1].review_count = 123

----------------------------------------------------------------------------
(* Browsers of discovery (Spec) *)

\* search_competitors has returned or raised, and the orchestrator has not
\* yet gone on
SearchEnded == pc = "discovering" /\ dpc \in {"returned", "raised"}

\* C19: when search_competitors returns or raises, every browser started
\* during the call has been quit, the Chrome whose configuration failed
\* before the Edge fallback included.
C19_DiscoveryBrowsersQuit ==
    SearchEnded => liveBrowsers = 0

\* search_competitors has returned after quitting its driver, and a
\* browser is still running
C19_Witness ==
    /\ SearchEnded
    /\ dpc = "returned"
    /\ driver = "quit"
    /\ liveBrowsers = 1

----------------------------------------------------------------------------
(* The browser fallback of discovery (Spec) *)

\* C20: Edge is tried once, and only after Chrome could not be started;
\* when both fail search_competitors raises, no browser is tried again,
\* and the orchestrator returns the error report without any scrape.
C20_EdgeTriedOnceThenFail ==
    /\ [](/\ launches \in {<<>>, <<"chrome">>, <<"chrome", "edge">>}
          /\ dpc = "edge" => launches = <<"chrome">>
          /\ dpc \in {"search", "items"} =>
                \/ driver = "chrome" /\ launches = <<"chrome">>
                \/ driver = "edge" /\ launches = <<"chrome", "edge">>
          /\ dpc = "raised" =>
                /\ launches = <<"chrome", "edge">>
                /\ trace.scrapes = <<>>
                /\ spc = "idle"
                /\ IF pc = "discovering" THEN discRet.raised
                   ELSE /\ pc = "done"
                        /\ report = ErrorReport("Competitor search failed"))
    /\ [][dpc = "raised" => (dpc' = "raised" /\ launches' = launches)]_vars

\* Chrome and Edge both failed to start and the orchestrator has returned
\* the error report
C20_Witness ==
    /\ dpc = "raised"
    /\ launches = <<"chrome", "edge">>
    /\ pc = "done"
    /\ IsErrorReport(report)
    /\ trace.scrapes = <<>>

----------------------------------------------------------------------------
(* Browser sessions of a whole run (Spec) *)

\* C21: during a run at most one browser session is open at any moment: the
\* discovery session is quit before the first scrape session is started, and
\* each listing's scrape session is quit before the next is started, also
\* when the listing's scrape failed.
C21_OneSessionAtATime ==
    liveBrowsers <= 1

\* discovery started Chrome only and quit it, the scrape of the first
\* listing raised with its session open, and the session of the second
\* listing's scrape has been started
C21_Witness ==
    /\ launches = <<"chrome">>
    /\ trace.scrapes = <<1, 2>>
    /\ browser = "live"
    /\ liveBrowsers = 2

----------------------------------------------------------------------------
(* The scroll loop (SpecScrape) *)

\* C22: in the scroll loop a re-query that does not find more nodes than
\* are known adds one to the stall counter and leaves the known nodes as
\* they are, only a re-query that finds more resets the counter to 0, and
\* the loop is left as soon as the counter reaches MaxStalls or the known
\* count reaches scroll_limit.
C22_StallCounter ==
    /\ [](spc = "scroll" => attempts < MaxStalls)
    /\ [][(spc = "scroll" /\ spc' \in {"scroll", "extract"}) =>
             IF reviews >= scroll_limit
             THEN spc' = "extract" /\ reviews' = reviews /\ attempts' = attempts
             ELSE /\ reviews' >= reviews
                  /\ IF reviews' > reviews
                     THEN attempts' = 0 /\ spc' = "scroll"
                     ELSE /\ attempts' = attempts + 1
                          /\ spc' = "extract" <=> attempts' >= MaxStalls]_vars

\* the loop, entered with at least one node, knows none after a re-query
\* that found fewer, and its stall counter is 0
C22_Witness ==
    /\ spc = "scroll"
    /\ reviews = 0
    /\ attempts = 0

\* C23: whatever node counts the re-queries return, the scroll loop ends and
\* the call of _scrape_single_google_reviews returns (or raises).
C23_ScrapeTerminates ==
    <>(spc \in {"returned", "raised"})

\* the loop can never reach its limit and has just reset its stall counter
\* on a re-query that found no node
C23_Witness ==
    /\ spc = "scroll"
    /\ scroll_limit > MaxNodes
    /\ reviews = 0
    /\ attempts = 0

----------------------------------------------------------------------------
(* Labels and subjectivity (SpecClassify) *)

\* the star-equivalent of a label by substring match on the lower-cased
\* label, "very negative" before "negative" and "very positive" before
\* "positive", else the embedded digit, else 3
StarsBySubstring(label) ==
    LET l == Lower(label)
        digits == {i \in 1..Len(label) : IsDigit(label[i])}
    IN  CASE Contains(l, Lower(VeryNegative)) -> 1
          [] Contains(l, Lower(VeryPositive)) -> 5
          [] Contains(l, Lower(Negative)) /\ ~Contains(l, Lower(VeryNegative)) -> 2
          [] Contains(l, Lower(Neutral)) -> 3
          [] Contains(l, Lower(Positive)) /\ ~Contains(l, Lower(VeryPositive)) -> 4
          [] OTHER -> IF digits = {} THEN 3
                      ELSE DigitValue(label[CHOOSE i \in digits : \A j \in digits : i <= j])

\* the result the pipeline's k-th answer was turned into
ResultOf(k) == batch_results[pipeline_calls[k].index]

\* C24: the star-equivalent of a label is found by substring match on the
\* lower-cased label (very negative 1, negative 2, neutral 3, positive 4,
\* very positive 5, else the embedded digit, else 3); the bucket is Positive
\* from 4 stars, Negative up to 2, Neutral otherwise; the polarity is
\* (star - 3) / 2.
C24_LabelBySubstring ==
    \A k \in 1..Len(pipeline_calls) :
        (~pipeline_calls[k].out.raises /\ pipeline_calls[k].index <= Len(batch_results)) =>
            LET star == StarsBySubstring(pipeline_calls[k].out.label)
            IN  /\ StarsValue(pipeline_calls[k].out.label) = star
                /\ ResultOf(k).sentiment =
                      (IF star >= 4 THEN "Positive"
                       ELSE IF star <= 2 THEN "Negative" ELSE "Neutral")
                /\ 2 * ResultOf(k).polarity = (star - 3) * Unit

\* the pipeline answered "Rather Positive" and the result is Neutral with
\* polarity 0.0
C24_Witness ==
    \E k \in 1..Len(pipeline_calls) :
        /\ ~pipeline_calls[k].out.raises
        /\ pipeline_calls[k].out.label = RatherPositive
        /\ pipeline_calls[k].index <= Len(batch_results)
        /\ ResultOf(k).sentiment = "Neutral"
        /\ ResultOf(k).polarity = 0

\* 0.5, in units
Half == Unit \div 2

\* C25: every result of the classifier has subjectivity 0.5, whatever the
\* text and whatever the pipeline did.
C25_SubjectivityIsHalf ==
    \A i \in 1..Len(batch_results) : batch_results[i].subjectivity = Half

\* a blank text has been given its result, with subjectivity 0.0
C25_Witness ==
    \E i \in 1..Len(batch_results) :
        /\ IsBlank(batch_texts[i])
        /\ batch_results[i].subjectivity = 0

----------------------------------------------------------------------------
(* Properties of the extraction loop of discovery (SpecDiscover) *)

\* the listings are those of result items among the first n, in order, at
\* most one each, and every item in which no lookup raises has its own
OnlyFailedSkipped(listings, n) ==
    /\ \A k \in 1..Len(listings) :
          /\ listings[k].index \in 1..n
          /\ k > 1 => listings[k - 1].index < listings[k].index
    /\ \A i \in 1..n :
          ~page.items[i].stale => \E k \in 1..Len(listings) : listings[k].index = i

\* C26: an exception raised while one result item is extracted skips that
\* item only: of the items processed so far every other one has given its
\* listing, in order; the loop goes through every item located; the call
\* returns the listings extracted, at most max_results of them.
C26_ItemFailureSkipsOneItem ==
    /\ [](/\ dpc = "items" =>
                /\ Len(page.items) <= max_results
                /\ OnlyFailedSkipped(found, items_done)
          /\ dpc = "returned" => Len(discRet.competitors) <= max_results)
    /\ [][/\ dpc = "items" => IsPrefix(found, found')
          /\ (dpc = "items" /\ dpc' = "returned") =>
                /\ items_done = Len(page.items)
                /\ ~discRet'.raised
                /\ Len(discRet'.competitors) = Len(found)
                /\ OnlyFailedSkipped(discRet'.competitors, Len(page.items))]_vars

\* of two result items the first raised in both extractions and the second
\* is the one listing returned
C26_Witness ==
    /\ dpc = "returned"
    /\ items_done = 2
    /\ Len(discRet.competitors) = 1
    /\ discRet.competitors[1].index = 2

\* the texts a result item shows, in its list card and in its detail pane
OwnTexts(item) ==
    {item.card[s] : s \in DOMAIN item.card} \cup {item.detail[s] : s \in DOMAIN item.detail}

\* C27: a listing is built from its own result item: its name is a text of
\* that item (or the synthetic name), its URL is that item's place URL, the
\* URL of the results page or the search URL made of its name, and its
\* rating is parsed from a text of that item, also when clicking the item
\* failed or opened no pane.
C27_ListingFromOwnItem ==
    dpc = "items" =>
        \A k \in 1..Len(found) :
            LET c == found[k]
                item == page.items[c.index]
            IN  /\ c.name \in OwnTexts(item) \cup {BusinessN(c.index - 1)}
                /\ c.google_maps_url \in
                      {item.url, page.url,
                       <<MapsHost>> \o SearchPath \o PlusForSpace(c.name)}
                /\ c.rating \in {0} \cup {_extract_rating_number(t) : t \in OwnTexts(item)}

\* the second result item could not be clicked, and its listing carries the
\* name and the URL of the first, whose pane was still open
C27_Witness ==
    /\ dpc = "items"
    /\ Len(found) = 2
    /\ page.items[1] = OpeningItem(Cafe)
    /\ page.items[2] = ClosedItem(Dive)
    /\ found[2].index = 2
    /\ found[2].name = Cafe
    /\ found[2].google_maps_url = page.items[1].url

\* 5.0, in units
FiveStarsRating == 5 * Unit

\* C28: every listing discovery extracts or returns has a rating between
\* 0.0 and 5.0 and a review count of 0 or more, whatever the rating
\* selectors find.
C28_RatingWithinScale ==
    \A c \in {found[k] : k \in 1..Len(found)}
                \cup {discRet.competitors[k] : k \in 1..Len(discRet.competitors)} :
        /\ 0 <= c.rating
        /\ c.rating <= FiveStarsRating
        /\ c.review_count >= 0

\* discovery has returned a listing rated 12.0 with 12 reviews
C28_Witness ==
    /\ dpc = "returned"
    /\ \E k \in 1..Len(discRet.competitors) :
          /\ discRet.competitors[k].rating = 12 * Unit
          /\ discRet.competitors[k].review_count = 12

----------------------------------------------------------------------------
(* Properties of the star rating (SpecStars) *)

\* C29: extract_star_rating returns an integer from 1 to 5: the whole part
\* of the first decimal number of the star text, or 3 when the text holds
\* no number.
C29_StarRatingInScale ==
    star_ratings # <<>> =>
        LET t == stars_elem
            digits == {i \in 1..Len(t) : IsDigit(t[i])}
        IN  /\ star_ratings[1] \in 1..5
            /\ IF digits = {} THEN star_ratings[1] = 3
               ELSE \E i \in digits, j \in digits :
                      /\ \A k \in digits : i <= k
                      /\ AllDigits(t, i, j)
                      /\ j = Len(t) \/ ~IsDigit(t[j + 1])
                      /\ star_ratings[1] = DigitsToNat(SubSeq(t, i, j))

\* the star text "10 stars" has been given the star rating 10
C29_Witness ==
    /\ stars_elem = <<"1","0"," ","s","t","a","r","s">>
    /\ star_ratings = <<10>>

----------------------------------------------------------------------------
(* Counts of the returned report (Spec) *)

\* the sum of total_reviews_analyzed over per-listing results
RECURSIVE SumAnalyzed(_)
SumAnalyzed(results) ==
    IF results = <<>> THEN 0
    ELSE results[1].total_reviews_analyzed + SumAnalyzed(Tail(results))

\* the results are those of listings of the sequence, in its order, at most
\* one each
InDiscoveryOrder(results, listings) ==
    \E at \in [1..Len(results) -> 1..Len(listings)] :
        \A k \in 1..Len(results) :
            /\ results[k].competitor_info = listings[at[k]]
            /\ k > 1 => at[k - 1] < at[k]

\* C30: the counts of a report agree: each per-listing result counts one or
\* more reviews, as many as its summary; the results are in discovery order,
\* one for each listing whose scrape retained a review; when there is any,
\* the combined totals are the number of results and the sum of their review
\* counts, which is the combined summary's total.
C30_CountsAgree ==
    /\ []((pc = "done" /\ DOMAIN report = ReportKeys) =>
            /\ \A k \in 1..Len(report.competitor_results) :
                  LET r == report.competitor_results[k]
                  IN  /\ r.total_reviews_analyzed >= 1
                      /\ r.total_reviews_analyzed = r.sentiment_summary.total_reviews
            /\ InDiscoveryOrder(report.competitor_results, report.competitors)
            /\ report.competitor_results # <<>> =>
                  LET combined == report.combined_analysis
                  IN  /\ combined.total_competitors_analyzed = Len(report.competitor_results)
                      /\ combined.total_reviews_analyzed = SumAnalyzed(report.competitor_results)
                      /\ combined.total_reviews_analyzed = combined.combined_summary.total_reviews)
    /\ [][(pc = "scraping" /\ spc = "returned") =>
             IF scrapeRet.df = <<>>
             THEN competitor_results' = competitor_results
             ELSE /\ Len(competitor_results') = Len(competitor_results) + 1
                  /\ IsPrefix(competitor_results, competitor_results')
                  /\ competitor_results'[Len(competitor_results')].competitor_info
                        = competitors[ci]
                  /\ competitor_results'[Len(competitor_results')].total_reviews_analyzed
                        = Len(scrapeRet.df)]_vars

\* of two listings only the second retained reviews, two of them, and the
\* report counts one listing and two reviews
C30_Witness ==
    /\ pc = "done"
    /\ DOMAIN report = ReportKeys
    /\ Len(report.competitors) = 2
    /\ Len(report.competitor_results) = 1
    /\ report.competitor_results[1].competitor_info = report.competitors[2]
    /\ report.combined_analysis.total_competitors_analyzed = 1
    /\ report.combined_analysis.total_reviews_analyzed = 2

====
